---- MODULE Spec2Model ----
(***************************************************************************)
(* A model of the rql filter engine (filtering.go): ApplyFilter and the    *)
(* functions it calls.  Go strings are modelled as sequences of            *)
(* one-character strings so that the text processing of the code (regular  *)
(* expressions, substring search, splitting, number parsing, rendering of  *)
(* values) is computed the way the code computes it.                       *)
(***************************************************************************)
EXTENDS Integers, Sequences, FiniteSets, TLC

(***************************************************************************)
(* Characters and strings                                                  *)
(***************************************************************************)

\* F applied to the value of v.  The value is computed once and then handed
\* to F, the way a Go local variable holds the result of the call that
\* initialised it.
Bind(v, F(_)) == CHOOSE r \in {F(x) : x \in {v}} : TRUE

MinOf(S) == CHOOSE i \in S : \A j \in S : i <= j

MaxOf(S) == CHOOSE i \in S : \A j \in S : i >= j

\* The printable ASCII characters, in byte order, starting at byte 32 (byte 96,
\* the grave accent, is written "grave").
Printable ==
  << " ", "!", "\"", "#", "$", "%", "&", "'", "(", ")", "*", "+", ",", "-", ".", "/",
     "0", "1", "2", "3", "4", "5", "6", "7", "8", "9", ":", ";", "<", "=", ">", "?",
     "@", "A", "B", "C", "D", "E", "F", "G", "H", "I", "J", "K", "L", "M", "N", "O",
     "P", "Q", "R", "S", "T", "U", "V", "W", "X", "Y", "Z", "[", "\\", "]", "^", "_",
     "grave", "a", "b", "c", "d", "e", "f", "g", "h", "i", "j", "k", "l", "m", "n", "o",
     "p", "q", "r", "s", "t", "u", "v", "w", "x", "y", "z", "{", "|", "}", "~" >>

\* The byte value of a character.
Ord(c) == 31 + (CHOOSE i \in 1..Len(Printable) : Printable[i] = c)

Chr(n) == Printable[n - 31]

IsDigit(c) == c \in {"0", "1", "2", "3", "4", "5", "6", "7", "8", "9"}

IsUpper(c) ==
  c \in {"A", "B", "C", "D", "E", "F", "G", "H", "I", "J", "K", "L", "M",
         "N", "O", "P", "Q", "R", "S", "T", "U", "V", "W", "X", "Y", "Z"}

IsLower(c) ==
  c \in {"a", "b", "c", "d", "e", "f", "g", "h", "i", "j", "k", "l", "m",
         "n", "o", "p", "q", "r", "s", "t", "u", "v", "w", "x", "y", "z"}

IsLetter(c) == IsUpper(c) \/ IsLower(c)

\* \w of the regular expressions: [0-9A-Za-z_]
IsWordChar(c) == IsDigit(c) \/ IsLetter(c) \/ c = "_"

\* \s of the regular expressions, within the printable alphabet
IsSpace(c) == c = " "

ToLowerChar(c) == IF IsUpper(c) THEN Chr(Ord(c) + 32) ELSE c

\* strings.ToLower
ToLower(s) == [i \in 1..Len(s) |-> ToLowerChar(s[i])]

HasPrefixAt(s, i, p) == i + Len(p) - 1 <= Len(s) /\ SubSeq(s, i, i + Len(p) - 1) = p

\* strings.HasPrefix
HasPrefix(s, p) == HasPrefixAt(s, 1, p)

\* strings.HasSuffix
HasSuffix(s, p) == Len(p) <= Len(s) /\ SubSeq(s, Len(s) - Len(p) + 1, Len(s)) = p

\* strings.Index, 1-based; 0 when sub does not occur in s
Index(s, sub) ==
  Bind({i \in 1..(Len(s) + 1) : HasPrefixAt(s, i, sub)},
       LAMBDA hits : IF hits = {} THEN 0 ELSE MinOf(hits))

\* strings.Contains
Contains(s, sub) == Index(s, sub) # 0

\* strings.Replace(s, old, new, 1)
Replace1(s, old, new) ==
  Bind(Index(s, old), LAMBDA i :
    IF i = 0 THEN s
    ELSE SubSeq(s, 1, i - 1) \o new \o SubSeq(s, i + Len(old), Len(s)))

RECURSIVE SplitFrom(_, _, _, _)
SplitFrom(s, sep, i, cur) ==
  IF i > Len(s) THEN <<cur>>
  ELSE IF s[i] = sep THEN <<cur>> \o SplitFrom(s, sep, i + 1, <<>>)
  ELSE SplitFrom(s, sep, i + 1, Append(cur, s[i]))

\* strings.Split(s, sep) for a one-character separator
Split(s, sep) == SplitFrom(s, sep, 1, <<>>)

\* strings.TrimSpace
TrimSpace(s) ==
  Bind({i \in 1..Len(s) : ~IsSpace(s[i])}, LAMBDA keep :
    IF keep = {} THEN <<>> ELSE SubSeq(s, MinOf(keep), MaxOf(keep)))

\* Go's < on strings: byte-wise lexicographic order
RECURSIVE StrLess(_, _)
StrLess(a, b) ==
  IF b = <<>> THEN FALSE
  ELSE IF a = <<>> THEN TRUE
  ELSE IF Ord(a[1]) # Ord(b[1]) THEN Ord(a[1]) < Ord(b[1])
  ELSE StrLess(Tail(a), Tail(b))

\* slices.Contains on a slice of strings
SliceContains(xs, x) == \E i \in 1..Len(xs) : xs[i] = x

RECURSIVE DigitsOf(_)
DigitsOf(n) ==
  IF n < 10 THEN <<Chr(48 + n)>> ELSE Append(DigitsOf(n \div 10), Chr(48 + (n % 10)))

\* strconv.FormatInt(n, 10)
FormatInt(n) == IF n < 0 THEN <<"-">> \o DigitsOf(0 - n) ELSE DigitsOf(n)

\* strconv.FormatBool
FormatBool(b) == IF b THEN <<"t", "r", "u", "e">> ELSE <<"f", "a", "l", "s", "e">>

(***************************************************************************)
(* Go values seen through package reflect                                  *)
(***************************************************************************)

GoString(s) == [kind |-> "string", s |-> s]

GoInt(n) == [kind |-> "int", n |-> n]

GoSlice(elems) == [kind |-> "slice", elems |-> elems]

\* fields: the declared members in declaration order, each [name, val]
GoStruct(fields) == [kind |-> "struct", fields |-> fields]

GoPtr(v) == [kind |-> "ptr", nil |-> FALSE, elem |-> v]

GoNilPtr == [kind |-> "ptr", nil |-> TRUE]

\* the zero reflect.Value: IsValid() is false, Kind() is Invalid
Invalid == [kind |-> "invalid"]

\* reflect.Value.Elem of a pointer: the zero Value for a nil pointer
Elem(v) == IF v.nil THEN Invalid ELSE v.elem

\* reflect.Value.FieldByName: the member with exactly that name
FieldByName(value, name) ==
  Bind({i \in 1..Len(value.fields) : value.fields[i].name = name}, LAMBDA hits :
    IF hits = {} THEN Invalid ELSE value.fields[MinOf(hits)].val)

\* findFieldCaseInsensitive: the first declared member whose lower-cased name
\* equals the lower-cased fieldName
findFieldCaseInsensitive(value, fieldName) ==
  Bind({i \in 1..Len(value.fields) : ToLower(value.fields[i].name) = ToLower(fieldName)},
       LAMBDA hits : IF hits = {} THEN Invalid ELSE value.fields[MinOf(hits)].val)

RECURSIVE JoinSpace(_)
JoinSpace(texts) ==
  IF texts = <<>> THEN <<>>
  ELSE IF Len(texts) = 1 THEN texts[1]
  ELSE texts[1] \o <<" ">> \o JoinSpace(Tail(texts))

\* What fmt prints for a pointer that is not printed as &{...}: an address.
PointerText == <<"0", "x", "c", "0", "0", "0", "0", "1", "0", "0", "0", "0">>

NilText == <<"<", "n", "i", "l", ">">>

\* fmt.Sprintf("%v", v) below the top level: a pointer prints as an address
RECURSIVE SprintDeep(_)
SprintDeep(v) ==
  CASE v.kind = "string" -> v.s
    [] v.kind = "int"    -> FormatInt(v.n)
    [] v.kind = "bool"   -> FormatBool(v.b)
    [] v.kind = "slice"  ->
         <<"[">> \o JoinSpace([i \in 1..Len(v.elems) |-> SprintDeep(v.elems[i])]) \o <<"]">>
    [] v.kind = "struct" ->
         <<"{">> \o JoinSpace([i \in 1..Len(v.fields) |-> SprintDeep(v.fields[i].val)])
                 \o <<"}">>
    [] v.kind = "ptr"    -> IF v.nil THEN NilText ELSE PointerText

\* fmt.Sprintf("%v", v): at the top level a pointer to a struct or slice prints
\* as & followed by the pointee
Sprint(v) ==
  IF v.kind = "ptr" /\ ~v.nil /\ v.elem.kind \in {"struct", "slice"}
  THEN <<"&">> \o SprintDeep(v.elem)
  ELSE SprintDeep(v)

NotFound == [found |-> FALSE, value |-> <<>>]

\* a member lookup by exact name only
lookupFieldExactOnly(value, part) == FieldByName(value, part)

\* the loop of getFieldValue over fieldParts, from part i on
\* value.FieldByName(part), and the case-insensitive search where that finds
\* no member
lookupField(value, part) ==
  Bind(FieldByName(value, part), LAMBDA exact :
    IF exact.kind = "invalid" THEN findFieldCaseInsensitive(value, part) ELSE exact)

\* a pointer is followed before its members are looked up
derefPtr(v) == IF v.kind = "ptr" THEN Elem(v) ELSE v

RECURSIVE getFieldValueFrom(_, _, _)
getFieldValueFrom(value, fieldParts, i) ==
  Bind(lookupField(value, fieldParts[i]), LAMBDA field :
    IF field.kind = "invalid" THEN NotFound
    ELSE IF i = Len(fieldParts) THEN [found |-> TRUE, value |-> Sprint(field)]
    ELSE Bind(derefPtr(field), LAMBDA next :
           IF next.kind # "struct" THEN NotFound
           ELSE getFieldValueFrom(next, fieldParts, i + 1)))

\* getFieldValue(item, fieldPath) (string, bool)
getFieldValue(item, fieldPath) ==
  Bind(derefPtr(item), LAMBDA value :
    IF value.kind # "struct" THEN NotFound
    ELSE Bind(Split(fieldPath, "."), LAMBDA fieldParts :
           getFieldValueFrom(value, fieldParts, 1)))

NoValues == [found |-> FALSE, values |-> <<>>]

\* the conversion of one array element to a string in getArrayFieldValues
elemToString(elem) ==
  CASE elem.kind = "string" -> elem.s
    [] elem.kind = "int"    -> FormatInt(elem.n)
    [] elem.kind = "bool"   -> FormatBool(elem.b)
    [] OTHER                -> Sprint(elem)

\* the last part of getArrayFieldValues: look up the array member and convert it
arrayFieldOf(value, lastField) ==
  Bind(lookupField(value, lastField), LAMBDA found :
    IF found.kind = "invalid" THEN NoValues
    ELSE IF found.kind = "ptr" /\ found.nil THEN NoValues
    ELSE Bind(derefPtr(found), LAMBDA arrayField :
           IF arrayField.kind # "slice" THEN NoValues
           ELSE [found |-> TRUE,
                 values |-> [i \in 1..Len(arrayField.elems) |->
                               elemToString(arrayField.elems[i])]]))

\* the loop of getArrayFieldValues over all parts but the last, from part i on
RECURSIVE getArrayFieldValuesFrom(_, _, _)
getArrayFieldValuesFrom(value, fieldParts, i) ==
  IF i = Len(fieldParts) THEN arrayFieldOf(value, fieldParts[i])
  ELSE
    Bind(lookupField(value, fieldParts[i]), LAMBDA field :
      IF field.kind = "invalid" THEN NoValues
      ELSE IF field.kind = "ptr" /\ field.nil THEN NoValues
      ELSE Bind(derefPtr(field), LAMBDA next :
             IF next.kind # "struct" THEN NoValues
             ELSE getArrayFieldValuesFrom(next, fieldParts, i + 1)))

\* getArrayFieldValues(item, fieldPath) ([]string, bool)
getArrayFieldValues(item, fieldPath) ==
  Bind(derefPtr(item), LAMBDA value :
    IF value.kind # "struct" THEN NoValues
    ELSE Bind(Split(fieldPath, "."), LAMBDA fieldParts :
           getArrayFieldValuesFrom(value, fieldParts, 1)))

(***************************************************************************)
(* Numbers                                                                 *)
(***************************************************************************)

RECURSIVE Pow10(_)
Pow10(k) == IF k = 0 THEN 1 ELSE 10 * Pow10(k - 1)

\* the number written by the first k digits of ds
RECURSIVE DigitsValueTo(_, _)
DigitsValueTo(ds, k) ==
  IF k = 0 THEN 0 ELSE 10 * DigitsValueTo(ds, k - 1) + (Ord(ds[k]) - 48)

DigitsValue(ds) == DigitsValueTo(ds, Len(ds))

AllDigits(ds) == \A i \in 1..Len(ds) : IsDigit(ds[i])

NotANumber == [ok |-> FALSE, mant |-> 0, scale |-> 0]

\* strconv.ParseFloat(s, 64) on decimal texts: an optional sign, digits, and an
\* optional point with digits (at least one digit in all).  The parsed value is
\* mant / 10^scale.  Exponents, hexadecimal forms, "inf" and "nan" do not occur
\* in the texts of this model.
ParseFloat(s) ==
  Bind(s # <<>> /\ s[1] \in {"+", "-"}, LAMBDA signed :
  Bind(IF signed THEN Tail(s) ELSE s, LAMBDA body :
  Bind(Index(body, <<".">>), LAMBDA dot :
  Bind(IF dot = 0 THEN body ELSE SubSeq(body, 1, dot - 1), LAMBDA whole :
  Bind(IF dot = 0 THEN <<>> ELSE SubSeq(body, dot + 1, Len(body)), LAMBDA frac :
    IF Len(whole) + Len(frac) = 0 \/ ~AllDigits(whole) \/ ~AllDigits(frac)
    THEN NotANumber
    ELSE Bind(DigitsValue(whole \o frac), LAMBDA mag :
           [ok |-> TRUE,
            mant |-> IF signed /\ s[1] = "-" THEN 0 - mag ELSE mag,
            scale |-> Len(frac)]))))))

\* a < b for two parsed numbers
NumLess(a, b) == a.mant * Pow10(b.scale) < b.mant * Pow10(a.scale)

(***************************************************************************)
(* regexp.MatchString on the expressions LikeCondition derives             *)
(***************************************************************************)

IsAlnum(c) == IsDigit(c) \/ IsLetter(c)

\* The atoms of a regular expression made of literal characters, escaped
\* punctuation, the classes \d, \w and \s, ".", "$" and the postfix "*".  ok is
\* FALSE where regexp.Compile reports an error: a trailing backslash, a
\* backslash before a digit or before a letter that names no escape, or a "*"
\* with nothing to repeat.  (The letter escapes other than \d, \w, \s that
\* the library accepts, such as \b or \x41, occur in no pattern of this model
\* and are taken as errors here.)
Atom(cls, c) == [cls |-> cls, c |-> c, star |-> FALSE]

RECURSIVE regexAtoms(_, _, _)
regexAtoms(re, i, acc) ==
  IF i > Len(re) THEN [ok |-> TRUE, atoms |-> acc]
  ELSE IF re[i] = "\\" THEN
         IF i = Len(re) THEN [ok |-> FALSE, atoms |-> <<>>]
         ELSE IF re[i + 1] \in {"d", "w", "s"}
         THEN regexAtoms(re, i + 2, Append(acc, Atom(re[i + 1], re[i + 1])))
         ELSE IF IsAlnum(re[i + 1]) THEN [ok |-> FALSE, atoms |-> <<>>]
         ELSE regexAtoms(re, i + 2, Append(acc, Atom("lit", re[i + 1])))
  ELSE IF re[i] = "*" THEN
         IF acc = <<>> THEN [ok |-> FALSE, atoms |-> <<>>]
         ELSE regexAtoms(re, i + 1,
                [acc EXCEPT ![Len(acc)] = [cls |-> @.cls, c |-> @.c, star |-> TRUE]])
  ELSE IF re[i] = "." THEN regexAtoms(re, i + 1, Append(acc, Atom("any", ".")))
  ELSE IF re[i] = "$" THEN regexAtoms(re, i + 1, Append(acc, Atom("end", "$")))
  ELSE regexAtoms(re, i + 1, Append(acc, Atom("lit", re[i])))

atomMatches(atom, c) ==
  CASE atom.cls = "any" -> TRUE
    [] atom.cls = "lit" -> atom.c = c
    [] atom.cls = "d" -> IsDigit(c)
    [] atom.cls = "w" -> IsAlnum(c) \/ c = "_"
    [] atom.cls = "s" -> c = " "
    [] OTHER -> FALSE

\* do atoms[i..] match str from position j on?  The atom "end" holds at the
\* end of str only; an expression that holds no such atom may stop anywhere.
RECURSIVE matchAtoms(_, _, _, _)
matchAtoms(atoms, i, str, j) ==
  IF i > Len(atoms) THEN TRUE
  ELSE IF atoms[i].cls = "end" THEN j > Len(str) /\ matchAtoms(atoms, i + 1, str, j)
  ELSE IF atoms[i].star THEN
         \E k \in j..(Len(str) + 1) :
            /\ \A m \in j..(k - 1) : atomMatches(atoms[i], str[m])
            /\ matchAtoms(atoms, i + 1, str, k)
  ELSE /\ j <= Len(str)
       /\ atomMatches(atoms[i], str[j])
       /\ matchAtoms(atoms, i + 1, str, j + 1)

\* regexp.MatchString("^" + body + "$", str): (match, err)
MatchAnchored(body, str) ==
  Bind(regexAtoms(body \o <<"$">>, 1, <<>>), LAMBDA compiled :
    IF ~compiled.ok THEN [err |-> TRUE, match |-> FALSE]
    ELSE Bind(compiled.atoms, LAMBDA atoms :
           [err |-> FALSE, match |-> matchAtoms(atoms, 1, str, 1)]))

\* strings.Trim(s, "%")
TrimPercent(s) ==
  Bind({i \in 1..Len(s) : s[i] # "%"}, LAMBDA keep :
    IF keep = {} THEN <<>> ELSE SubSeq(s, MinOf(keep), MaxOf(keep)))

regexSpecial == <<".", "^", "$", "*", "+", "?", "(", ")", "[", "]", "{", "}", "|">>

\* the escaping loop followed by the two wildcard substitutions (each is a
\* character-for-text substitution, applied to every occurrence)
RECURSIVE likeToRegex(_)
likeToRegex(pattern) ==
  IF pattern = <<>> THEN <<>>
  ELSE (CASE SliceContains(regexSpecial, pattern[1]) -> <<"\\", pattern[1]>>
          [] pattern[1] = "%" -> <<".", "*">>
          [] pattern[1] = "_" -> <<".">>
          [] OTHER -> <<pattern[1]>>) \o likeToRegex(Tail(pattern))

\* LikeCondition.evaluate after the field lookup
\* the regular-expression branch of LikeCondition.evaluate
likeRegexMatch(str, pattern) ==
  Bind(likeToRegex(pattern), LAMBDA regexPattern :
  Bind(MatchAnchored(regexPattern, str), LAMBDA m :
    IF m.err
    THEN Bind(TrimPercent(pattern), LAMBDA trimmed : Contains(str, trimmed))
    ELSE m.match))

\* the fast paths of LikeCondition.evaluate, then the regular expression
likeDispatch(str, pattern, pre, suf) ==
  IF pre /\ suf THEN Bind(TrimPercent(pattern), LAMBDA trimmed : Contains(str, trimmed))
  ELSE IF pattern = <<"%">> THEN TRUE
  ELSE IF ~pre /\ suf
  THEN Bind(SubSeq(pattern, 1, Len(pattern) - 1), LAMBDA prefix : HasPrefix(str, prefix))
  ELSE IF pre /\ ~suf THEN Bind(Tail(pattern), LAMBDA suffix : HasSuffix(str, suffix))
  ELSE IF ~Contains(pattern, <<"%">>) THEN str = pattern
  ELSE likeRegexMatch(str, pattern)

\* LikeCondition.evaluate after the field lookup
likeMatch(fieldValue, value, caseInsensitive) ==
  Bind(IF caseInsensitive THEN ToLower(fieldValue) ELSE fieldValue, LAMBDA str :
  Bind(IF caseInsensitive THEN ToLower(value) ELSE value, LAMBDA pattern :
  Bind(HasPrefix(pattern, <<"%">>), LAMBDA pre :
  Bind(HasSuffix(pattern, <<"%">>), LAMBDA suf :
    likeDispatch(str, pattern, pre, suf)))))

(***************************************************************************)
(* Conditions and their evaluate methods                                   *)
(***************************************************************************)

\* a nil Condition interface value
NilCondition == [kind |-> "nil"]

alwaysTrueCondition == [kind |-> "alwaysTrue"]

AndCondition(l, r) == [kind |-> "And", left |-> l, right |-> r]

OrCondition(l, r) == [kind |-> "Or", left |-> l, right |-> r]

EqualCondition(f, v) == [kind |-> "Equal", field |-> f, value |-> v]

NotEqualCondition(f, v) == [kind |-> "NotEqual", field |-> f, value |-> v]

LikeCondition(f, v, ci) == [kind |-> "Like", field |-> f, value |-> v, caseInsensitive |-> ci]

ComparisonCondition(f, v, op) ==
  [kind |-> "Comparison", field |-> f, value |-> v, operator |-> op]

AnyArrayContainsCondition(f, v) == [kind |-> "AnyArrayContains", field |-> f, value |-> v]

AnyArrayNotContainsCondition(f, v) == [kind |-> "AnyArrayNotContains", field |-> f, value |-> v]

AnyArrayContainsAnyCondition(f, vs) ==
  [kind |-> "AnyArrayContainsAny", field |-> f, values |-> vs]

AnyArrayNotContainsAnyCondition(f, vs) ==
  [kind |-> "AnyArrayNotContainsAny", field |-> f, values |-> vs]

isAlwaysTrueCondition(cond) == cond.kind = "alwaysTrue"

\* the operators of ComparisonCondition, as texts
OpGT == <<">">>

OpGE == <<">", "=">>

OpLT == <<"<">>

OpLE == <<"<", "=">>

\* EqualCondition.evaluate
evalEqual(c, item) ==
  Bind(getFieldValue(item, c.field), LAMBDA r :
    IF ~r.found THEN FALSE ELSE r.value = c.value)

\* NotEqualCondition.evaluate without the test of found
evalNotEqualMissingTrue(c, item) ==
  Bind(getFieldValue(item, c.field), LAMBDA r : r.value # c.value)

\* NotEqualCondition.evaluate
evalNotEqual(c, item) ==
  Bind(getFieldValue(item, c.field), LAMBDA r :
    IF ~r.found THEN FALSE ELSE r.value # c.value)

\* the string comparison switch of ComparisonCondition.evaluate
compareStrings(fieldValue, operator, value) ==
  CASE operator = OpGT -> StrLess(value, fieldValue)
    [] operator = OpGE -> ~StrLess(fieldValue, value)
    [] operator = OpLT -> StrLess(fieldValue, value)
    [] operator = OpLE -> ~StrLess(value, fieldValue)
    [] OTHER -> FALSE

\* the numeric comparison switch of ComparisonCondition.evaluate
compareNumbers(fieldNum, operator, valueNum) ==
  CASE operator = OpGT -> NumLess(valueNum, fieldNum)
    [] operator = OpGE -> ~NumLess(fieldNum, valueNum)
    [] operator = OpLT -> NumLess(fieldNum, valueNum)
    [] operator = OpLE -> ~NumLess(valueNum, fieldNum)
    [] OTHER -> FALSE

\* ComparisonCondition.evaluate after the field lookup: numbers when both
\* texts parse as numbers, strings otherwise
compareValues(fieldValue, operator, value) ==
  Bind(ParseFloat(fieldValue), LAMBDA fieldNum :
  Bind(ParseFloat(value), LAMBDA valueNum :
    IF ~fieldNum.ok \/ ~valueNum.ok THEN compareStrings(fieldValue, operator, value)
    ELSE compareNumbers(fieldNum, operator, valueNum)))

\* ComparisonCondition.evaluate without the numeric comparison
evalComparisonStringsOnly(c, item) ==
  Bind(getFieldValue(item, c.field), LAMBDA r :
    IF ~r.found THEN FALSE ELSE compareStrings(r.value, c.operator, c.value))

\* ComparisonCondition.evaluate
evalComparison(c, item) ==
  Bind(getFieldValue(item, c.field), LAMBDA r :
    IF ~r.found THEN FALSE ELSE compareValues(r.value, c.operator, c.value))

\* a LIKE that never folds the letter case
evalLikeCaseSensitive(c, item) ==
  Bind(getFieldValue(item, c.field), LAMBDA r :
    IF ~r.found THEN FALSE ELSE likeMatch(r.value, c.value, FALSE))

\* LikeCondition.evaluate
evalLike(c, item) ==
  Bind(getFieldValue(item, c.field), LAMBDA r :
    IF ~r.found THEN FALSE ELSE likeMatch(r.value, c.value, c.caseInsensitive))

\* AnyArrayContainsCondition.evaluate
evalContains(c, item) ==
  Bind(getArrayFieldValues(item, c.field), LAMBDA r :
    IF ~r.found THEN FALSE
    ELSE IF Len(r.values) = 0 THEN FALSE
    ELSE \E i \in 1..Len(r.values) : r.values[i] = c.value)

\* AnyArrayNotContainsCondition.evaluate without the test of found
evalNotContainsMissingTrue(c, item) ==
  Bind(getArrayFieldValues(item, c.field), LAMBDA r : ~SliceContains(r.values, c.value))

\* AnyArrayNotContainsCondition.evaluate
evalNotContains(c, item) ==
  Bind(getArrayFieldValues(item, c.field), LAMBDA r :
    IF ~r.found THEN FALSE
    ELSE IF Len(r.values) = 0 THEN TRUE
    ELSE ~SliceContains(r.values, c.value))

\* AnyArrayContainsAnyCondition.evaluate
evalContainsAny(c, item) ==
  Bind(getArrayFieldValues(item, c.field), LAMBDA r :
    IF ~r.found THEN FALSE
    ELSE IF Len(r.values) = 0 THEN FALSE
    ELSE \E i \in 1..Len(r.values) : SliceContains(c.values, r.values[i]))

\* AnyArrayNotContainsAnyCondition.evaluate with an empty array treated as
\* the Contains conditions treat it
evalNotContainsAnyEmptyFalse(c, item) ==
  Bind(getArrayFieldValues(item, c.field), LAMBDA r :
    IF ~r.found THEN FALSE
    ELSE IF Len(r.values) = 0 THEN FALSE
    ELSE \A i \in 1..Len(r.values) : ~SliceContains(c.values, r.values[i]))

\* AnyArrayNotContainsAnyCondition.evaluate
evalNotContainsAny(c, item) ==
  Bind(getArrayFieldValues(item, c.field), LAMBDA r :
    IF ~r.found THEN FALSE
    ELSE IF Len(r.values) = 0 THEN TRUE
    ELSE \A i \in 1..Len(r.values) : ~SliceContains(c.values, r.values[i]))

\* Condition.evaluate(item), dispatched on the dynamic type
RECURSIVE evaluate(_, _)
evaluate(c, item) ==
  CASE c.kind = "alwaysTrue" -> TRUE
    [] c.kind = "And" -> evaluate(c.left, item) /\ evaluate(c.right, item)
    [] c.kind = "Or" -> evaluate(c.left, item) \/ evaluate(c.right, item)
    [] c.kind = "Equal" -> evalEqual(c, item)
    [] c.kind = "NotEqual" -> evalNotEqual(c, item)
    [] c.kind = "Comparison" -> evalComparison(c, item)
    [] c.kind = "Like" -> evalLike(c, item)
    [] c.kind = "AnyArrayContains" -> evalContains(c, item)
    [] c.kind = "AnyArrayNotContains" -> evalNotContains(c, item)
    [] c.kind = "AnyArrayContainsAny" -> evalContainsAny(c, item)
    [] c.kind = "AnyArrayNotContainsAny" -> evalNotContainsAny(c, item)

(***************************************************************************)
(* preprocessAnyOperator and parseAnyValues                                *)
(***************************************************************************)

AnyOpenText == <<"A", "N", "Y", "(">>

TrueText == <<"t", "r", "u", "e">>

FalseText == <<"f", "a", "l", "s", "e">>

Quote == "'"

\* the first index >= i of s that holds a character outside the class, or
\* Len(s) + 1: where a greedy run of class characters starting at i ends
RunEnd(s, i, InClass(_)) ==
  Bind({k \in i..Len(s) : ~InClass(s[k])}, LAMBDA stops :
    IF stops = {} THEN Len(s) + 1 ELSE MinOf(stops))

IsFieldChar(c) == IsWordChar(c) \/ c = "."

IsSeparator(c) == c = " " \/ c = ","

NoMatch == [ok |-> FALSE]

\* The common head of both expressions, ANY\(([\w\.]+)\)\s*(=|!=)\s* , tried at
\* position i: the field name, the operator and the position after it.
matchAnyHead(s, i) ==
  IF ~HasPrefixAt(s, i, AnyOpenText) THEN NoMatch
  ELSE
    Bind(RunEnd(s, i + 4, IsFieldChar), LAMBDA f1 :
      IF f1 = i + 4 \/ f1 > Len(s) THEN NoMatch
      ELSE IF s[f1] # ")" THEN NoMatch
      ELSE
        Bind(RunEnd(s, f1 + 1, IsSpace), LAMBDA o0 :
        Bind(HasPrefixAt(s, o0, <<"!", "=">>), LAMBDA isNe :
          IF ~isNe /\ ~HasPrefixAt(s, o0, <<"=">>) THEN NoMatch
          ELSE [ok |-> TRUE, field |-> SubSeq(s, i + 4, f1 - 1),
                operator |-> IF isNe THEN <<"!", "=">> ELSE <<"=">>,
                next |-> RunEnd(s, IF isNe THEN o0 + 2 ELSE o0 + 1, IsSpace)])))

\* anyFieldRegex  ANY\(([\w\.]+)\)\s*(=|!=)\s*('[^']+'|\w+)  tried at position i
matchAnyField(s, i) ==
  Bind(matchAnyHead(s, i), LAMBDA h :
    IF ~h.ok THEN NoMatch
    ELSE IF h.next > Len(s) THEN NoMatch
    ELSE
      Bind(h.next, LAMBDA v0 :
      Bind(RunEnd(s, v0 + 1, LAMBDA c : c # Quote), LAMBDA q1 :
      Bind(RunEnd(s, v0, IsWordChar), LAMBDA w1 :
        IF s[v0] = Quote /\ q1 > v0 + 1 /\ q1 <= Len(s)
        THEN [ok |-> TRUE, field |-> h.field, operator |-> h.operator,
              group3 |-> SubSeq(s, v0, q1), full |-> SubSeq(s, i, q1), to |-> q1]
        ELSE IF w1 > v0
        THEN [ok |-> TRUE, field |-> h.field, operator |-> h.operator,
              group3 |-> SubSeq(s, v0, w1 - 1), full |-> SubSeq(s, i, w1 - 1),
              to |-> w1 - 1]
        ELSE NoMatch))))

\* anyFieldAnyValueRegex  ANY\(([\w\.]+)\)\s*(=|!=)\s*ANY\(([^)]*)\)  tried at i
matchAnyFieldAnyValue(s, i) ==
  Bind(matchAnyHead(s, i), LAMBDA h :
    IF ~h.ok THEN NoMatch
    ELSE IF ~HasPrefixAt(s, h.next, AnyOpenText) THEN NoMatch
    ELSE
      Bind(h.next + 4, LAMBDA v0 :
      Bind(RunEnd(s, v0, LAMBDA c : c # ")"), LAMBDA v1 :
        IF v1 > Len(s) THEN NoMatch
        ELSE [ok |-> TRUE, field |-> h.field, operator |-> h.operator,
              group3 |-> SubSeq(s, v0, v1 - 1), full |-> SubSeq(s, i, v1), to |-> v1])))

\* anyFieldAnyValueRegex.FindAllStringSubmatch(s, -1) from position i on: the
\* leftmost matches, none overlapping
RECURSIVE findAllAnyFieldAnyValue(_, _)
findAllAnyFieldAnyValue(s, i) ==
  Bind({k \in i..Len(s) : matchAnyFieldAnyValue(s, k).ok}, LAMBDA starts :
    IF starts = {} THEN <<>>
    ELSE Bind(matchAnyFieldAnyValue(s, MinOf(starts)), LAMBDA m :
         Bind(m.to + 1, LAMBDA j : <<m>> \o findAllAnyFieldAnyValue(s, j))))

\* anyFieldRegex.FindAllStringSubmatch(s, -1) from position i on
RECURSIVE findAllAnyField(_, _)
findAllAnyField(s, i) ==
  Bind({k \in i..Len(s) : matchAnyField(s, k).ok}, LAMBDA starts :
    IF starts = {} THEN <<>>
    ELSE Bind(matchAnyField(s, MinOf(starts)), LAMBDA m :
         Bind(m.to + 1, LAMBDA j : <<m>> \o findAllAnyField(s, j))))

\* The split function handed to bufio.Scanner, run over the whole text: the
\* tokens it yields from position i on.
RECURSIVE scanTokens(_, _)
scanTokens(data, i) ==
  Bind(RunEnd(data, i, IsSeparator), LAMBDA start :
    IF start > Len(data) THEN <<>>
    ELSE IF data[start] = Quote
    THEN Bind(RunEnd(data, start + 1, LAMBDA c : c # Quote), LAMBDA qEnd :
         Bind(qEnd + 1, LAMBDA j :
           <<SubSeq(data, start + 1, qEnd - 1)>> \o scanTokens(data, j)))
    ELSE Bind(RunEnd(data, start, LAMBDA c : c # ","), LAMBDA uEnd :
           <<SubSeq(data, start, uEnd - 1)>> \o scanTokens(data, uEnd)))

\* the texts that are not empty after strings.TrimSpace, trimmed
RECURSIVE trimmedNonEmpty(_)
trimmedNonEmpty(texts) ==
  IF texts = <<>> THEN <<>>
  ELSE Bind(TrimSpace(texts[1]), LAMBDA val :
         (IF val # <<>> THEN <<val>> ELSE <<>>) \o trimmedNonEmpty(Tail(texts)))

isQuoted(v) == HasPrefix(v, <<Quote>>) /\ HasSuffix(v, <<Quote>>)

\* v[1 : len(v)-1] where v starts and ends with a quote
unquote(v) == SubSeq(v, 2, Len(v) - 1)

\* one value of the fallback loop of parseAnyValues, quotes removed
fallbackValue(raw) ==
  Bind(TrimSpace(raw), LAMBDA v : IF isQuoted(v) THEN unquote(v) ELSE v)

RECURSIVE fallbackValues(_)
fallbackValues(raws) ==
  IF raws = <<>> THEN <<>>
  ELSE Bind(fallbackValue(raws[1]), LAMBDA v :
         (IF v # <<>> THEN <<v>> ELSE <<>>) \o fallbackValues(Tail(raws)))

\* the fallback of parseAnyValues: strings.Split on commas
parseAnyValuesFallback(valuesStr) ==
  Bind(Split(valuesStr, ","), LAMBDA raws :
    IF \E i \in 1..Len(raws) : TrimSpace(raws[i]) = <<Quote>>
    THEN [panic |-> TRUE, values |-> <<>>]
    ELSE [panic |-> FALSE, values |-> fallbackValues(raws)])

\* parseAnyValues(valuesStr).  panic: the fallback loop slices v[1:len(v)-1] on
\* a v that is a single quote, which is a slice-bounds run-time panic.
parseAnyValues(valuesStr) ==
  Bind(scanTokens(valuesStr, 1), LAMBDA tokens :
  Bind(trimmedNonEmpty(tokens), LAMBDA values :
    IF values # <<>> THEN [panic |-> FALSE, values |-> values]
    ELSE parseAnyValuesFallback(valuesStr)))

\* the first loop of preprocessAnyOperator, over the matches from the k-th on
RECURSIVE replaceAnyAny(_, _, _, _)
replaceAnyAny(matches, k, filter, conds) ==
  IF k > Len(matches) THEN [panic |-> FALSE, filter |-> filter, conds |-> conds]
  ELSE
    Bind(matches[k], LAMBDA m :
    Bind(parseAnyValues(m.group3), LAMBDA parsed :
      IF parsed.panic THEN [panic |-> TRUE, filter |-> filter, conds |-> conds]
      ELSE
        Bind(IF m.operator = <<"=">>
             THEN AnyArrayContainsAnyCondition(m.field, parsed.values)
             ELSE AnyArrayNotContainsAnyCondition(m.field, parsed.values),
             LAMBDA condition :
        Bind(Replace1(filter, m.full, TrueText), LAMBDA replaced :
        Bind(Append(conds, condition), LAMBDA appended :
          replaceAnyAny(matches, k + 1, replaced, appended))))))

\* the second loop of preprocessAnyOperator
RECURSIVE replaceAnyField(_, _, _, _)
replaceAnyField(matches, k, filter, conds) ==
  IF k > Len(matches) THEN [panic |-> FALSE, filter |-> filter, conds |-> conds]
  ELSE
    Bind(matches[k], LAMBDA m :
    Bind(IF isQuoted(m.group3) THEN unquote(m.group3) ELSE m.group3, LAMBDA valueStr :
    Bind(IF m.operator = <<"=">>
         THEN AnyArrayContainsCondition(m.field, valueStr)
         ELSE AnyArrayNotContainsCondition(m.field, valueStr),
         LAMBDA condition :
    Bind(Replace1(filter, m.full, TrueText), LAMBDA replaced :
    Bind(Append(conds, condition), LAMBDA appended :
      replaceAnyField(matches, k + 1, replaced, appended))))))

\* preprocessAnyOperator(filter): the filter with the ANY comparisons replaced
\* by "true", and the conditions extracted (the error result is always nil)
preprocessAnyOperator(filter) ==
  Bind(findAllAnyFieldAnyValue(filter, 1), LAMBDA matches :
  Bind(replaceAnyAny(matches, 1, filter, <<>>), LAMBDA first :
    IF first.panic THEN first
    ELSE Bind(findAllAnyField(first.filter, 1), LAMBDA fieldMatches :
           replaceAnyField(fieldMatches, 1, first.filter, first.conds))))

(***************************************************************************)
(* url.QueryEscape and url.QueryUnescape                                   *)
(***************************************************************************)

HexDigits == <<"0", "1", "2", "3", "4", "5", "6", "7", "8", "9", "A", "B", "C", "D", "E", "F">>

\* characters url.QueryEscape leaves as they are
IsUnreserved(c) == IsAlnum(c) \/ c \in {"-", "_", ".", "~"}

\* the encoding of one character
escapeChar(c) ==
  CASE c = " " -> <<"+">>
    [] IsUnreserved(c) -> <<c>>
    [] OTHER -> Bind(Ord(c), LAMBDA b : <<"%", HexDigits[(b \div 16) + 1], HexDigits[(b % 16) + 1]>>)

\* the encoding of s from position i on
RECURSIVE escapeFrom(_, _)
escapeFrom(s, i) ==
  IF i > Len(s) THEN <<>> ELSE escapeChar(s[i]) \o escapeFrom(s, i + 1)

\* an encoding step that leaves the text as it is
QueryEscapeNothing(s) == s

\* url.QueryEscape
QueryEscape(s) == escapeFrom(s, 1)

IsHex(c) == IsDigit(c) \/ c \in {"A", "B", "C", "D", "E", "F", "a", "b", "c", "d", "e", "f"}

unhex(c) == IF IsDigit(c) THEN Ord(c) - 48
            ELSE IF IsUpper(c) THEN Ord(c) - 65 + 10 ELSE Ord(c) - 97 + 10

\* url.QueryUnescape: err when a "%" is not followed by two hexadecimal digits
\* the decoding of s from position i on
RECURSIVE unescapeFrom(_, _)
unescapeFrom(s, i) ==
  Bind({k \in i..Len(s) : s[k] = "%"}, LAMBDA marks :
  Bind(IF marks = {} THEN Len(s) + 1 ELSE MinOf(marks), LAMBDA k :
  Bind([n \in 1..(k - i) |-> IF s[i + n - 1] = "+" THEN " " ELSE s[i + n - 1]],
       LAMBDA plain :
    IF k > Len(s) THEN [err |-> FALSE, text |-> plain]
    ELSE IF k + 2 > Len(s) \/ ~IsHex(s[k + 1]) \/ ~IsHex(s[k + 2])
    THEN [err |-> TRUE, text |-> <<>>]
    ELSE Bind(unescapeFrom(s, k + 3), LAMBDA rest :
           [err |-> rest.err,
            text |-> IF rest.err THEN <<>>
                     ELSE plain \o <<Chr(16 * unhex(s[k + 1]) + unhex(s[k + 2]))>>
                          \o rest.text]))))

QueryUnescape(s) == unescapeFrom(s, 1)

(***************************************************************************)
(* parser.Parse on "SELECT * FROM t WHERE <filter>": the WHERE expression. *)
(* The SQL parser is a library; this is the part of its lexer and grammar  *)
(* that the filter texts of this model exercise: names, string, number and *)
(* boolean literals, comparison operators, LIKE / ILIKE, NOT, AND, OR      *)
(* and parentheses, with the precedences of the PostgreSQL grammar.        *)
(***************************************************************************)

Text_and == <<"a", "n", "d">>

Text_or == <<"o", "r">>

Text_not == <<"n", "o", "t">>

Text_like == <<"l", "i", "k", "e">>

Text_ilike == <<"i", "l", "i", "k", "e">>

\* reserved words: an identifier spelled like one of these, in any letter
\* case, is a keyword and not a name
Keywords ==
  {Text_and, Text_or, Text_not, Text_like, Text_ilike, <<"a", "n", "y">>, TrueText, FalseText}

IsIdentStart(c) == IsLetter(c) \/ c = "_"

IsIdentChar(c) == IsWordChar(c) \/ c = "$"

Tok(t, v) == [t |-> t, v |-> v]

\* the comparison operators of the lexer, longest first
TwoCharOps == {<<"!", "=">>, <<"<", ">">>, <<"<", "=">>, <<">", "=">>}

OneCharOps == {"=", "<", ">", "(", ")", "-"}

\* The tokens of text from position i on.  A name is an identifier or a dotted
\* path of identifiers; unquoted identifiers are folded to lower case.  A
\* character that starts no token, and a string with no closing quote, give the
\* token "bad".
RECURSIVE tokenize(_, _)
tokenize(text, i) ==
  IF i > Len(text) THEN <<>>
  ELSE LET c == text[i] IN
    IF IsSpace(c) THEN tokenize(text, i + 1)
    ELSE IF IsIdentStart(c) THEN
      Bind(RunEnd(text, i, LAMBDA ch : IsIdentChar(ch) \/ ch = "."), LAMBDA e :
      Bind(ToLower(SubSeq(text, i, e - 1)), LAMBDA w :
        <<Tok(IF w \in Keywords THEN "kw" ELSE "name", w)>> \o tokenize(text, e)))
    ELSE IF IsDigit(c) THEN
      Bind(RunEnd(text, i, LAMBDA ch : IsDigit(ch) \/ ch = "."), LAMBDA e :
        <<Tok("num", SubSeq(text, i, e - 1))>> \o tokenize(text, e))
    ELSE IF c = Quote THEN
      Bind(RunEnd(text, i + 1, LAMBDA ch : ch # Quote), LAMBDA e :
        IF e > Len(text) THEN <<Tok("bad", <<>>)>>
        ELSE <<Tok("str", SubSeq(text, i + 1, e - 1))>> \o tokenize(text, e + 1))
    ELSE IF i < Len(text) /\ SubSeq(text, i, i + 1) \in TwoCharOps THEN
      <<Tok("op", SubSeq(text, i, i + 1))>> \o tokenize(text, i + 2)
    ELSE IF c \in OneCharOps THEN <<Tok("op", <<c>>)>> \o tokenize(text, i + 1)
    ELSE <<Tok("bad", <<c>>)>>

\* nodes of the syntax tree (package tree)
NameNode(w) == [node |-> "UnresolvedName", text |-> w]

StrVal(w) == [node |-> "StrVal", text |-> w]

NumVal(w) == [node |-> "NumVal", text |-> w]

DBool(w) == [node |-> "DBool", text |-> w]

ParenExpr(e) == [node |-> "ParenExpr", expr |-> e]

NotExpr(e) == [node |-> "NotExpr", expr |-> e]

AndExpr(l, r) == [node |-> "AndExpr", left |-> l, right |-> r]

OrExpr(l, r) == [node |-> "OrExpr", left |-> l, right |-> r]

ComparisonExpr(op, l, r) == [node |-> "ComparisonExpr", operator |-> op, left |-> l, right |-> r]

\* tree.ComparisonOperator of a comparison token
CmpOps == {<<"=">>, <<"!", "=">>, <<"<", ">">>, <<"<">>, <<"<", "=">>, <<">">>, <<">", "=">>}

operatorOf(v) ==
  CASE v = <<"=">> -> "EQ"
    [] v = <<"!", "=">> -> "NE"
    [] v = <<"<", ">">> -> "NE"
    [] v = <<"<">> -> "LT"
    [] v = <<"<", "=">> -> "LE"
    [] v = <<">">> -> "GT"
    [] v = <<">", "=">> -> "GE"

Fail == [ok |-> FALSE]

Parsed(e, pos) == [ok |-> TRUE, expr |-> e, pos |-> pos]

IsTok(toks, p, t, v) == p <= Len(toks) /\ toks[p].t = t /\ toks[p].v = v

IsKw(toks, p, w) == IsTok(toks, p, "kw", w)

IsOp(toks, p, w) == IsTok(toks, p, "op", w)

RECURSIVE parseOr(_, _), parseOrRest(_, _, _), parseAnd(_, _), parseAndRest(_, _, _)
RECURSIVE parseNot(_, _), parseCmp(_, _), parseLikeExpr(_, _), parsePrimary(_, _)

\* '(' a_expr ')' | literal | name | '-' number
parsePrimary(toks, p) ==
  IF p > Len(toks) THEN Fail
  ELSE IF IsOp(toks, p, <<"(">>) THEN
    Bind(parseOr(toks, p + 1), LAMBDA inner :
      IF inner.ok /\ IsOp(toks, inner.pos, <<")">>)
      THEN Parsed(ParenExpr(inner.expr), inner.pos + 1) ELSE Fail)
  ELSE IF IsOp(toks, p, <<"-">>) THEN
    IF p < Len(toks) /\ toks[p + 1].t = "num"
    THEN Parsed(NumVal(<<"-">> \o toks[p + 1].v), p + 2) ELSE Fail
  ELSE IF toks[p].t = "str" THEN Parsed(StrVal(toks[p].v), p + 1)
  ELSE IF toks[p].t = "num" THEN Parsed(NumVal(toks[p].v), p + 1)
  ELSE IF toks[p].t = "name" THEN Parsed(NameNode(toks[p].v), p + 1)
  ELSE IF IsKw(toks, p, TrueText) \/ IsKw(toks, p, FalseText) THEN Parsed(DBool(toks[p].v), p + 1)
  ELSE Fail

\* a_expr [NOT] LIKE a_expr | a_expr [NOT] ILIKE a_expr
parseLikeExpr(toks, p) ==
  Bind(parsePrimary(toks, p), LAMBDA l :
    IF ~l.ok THEN Fail
    ELSE
      Bind(IsKw(toks, l.pos, Text_not), LAMBDA neg :
      Bind(IF neg THEN l.pos + 1 ELSE l.pos, LAMBDA k :
      Bind(IsKw(toks, k, Text_like), LAMBDA isL :
        IF isL \/ IsKw(toks, k, Text_ilike) THEN
          Bind(k + 1, LAMBDA k1 :
          Bind(parsePrimary(toks, k1), LAMBDA r :
            IF r.ok
            THEN Parsed(ComparisonExpr(IF isL THEN (IF neg THEN "NotLike" ELSE "Like")
                                       ELSE (IF neg THEN "NotILike" ELSE "ILike"),
                                       l.expr, r.expr), r.pos)
            ELSE Fail))
        ELSE IF neg THEN Fail
        ELSE l))))

\* a_expr op a_expr for the non-associative comparison operators
parseCmp(toks, p) ==
  Bind(parseLikeExpr(toks, p), LAMBDA l :
    IF ~l.ok THEN Fail
    ELSE IF l.pos <= Len(toks) /\ toks[l.pos].t = "op" /\ toks[l.pos].v \in CmpOps THEN
      Bind(l.pos + 1, LAMBDA k :
      Bind(parseLikeExpr(toks, k), LAMBDA r :
        IF r.ok
        THEN Parsed(ComparisonExpr(operatorOf(toks[l.pos].v), l.expr, r.expr), r.pos)
        ELSE Fail))
    ELSE l)

parseNot(toks, p) ==
  IF IsKw(toks, p, Text_not) THEN
    Bind(p + 1, LAMBDA k :
    Bind(parseNot(toks, k), LAMBDA e :
      IF e.ok THEN Parsed(NotExpr(e.expr), e.pos) ELSE Fail))
  ELSE parseCmp(toks, p)

parseAndRest(toks, left, p) ==
  IF IsKw(toks, p, Text_and) THEN
    Bind(p + 1, LAMBDA k :
    Bind(parseNot(toks, k), LAMBDA r :
      IF r.ok
      THEN Bind(AndExpr(left, r.expr), LAMBDA node : parseAndRest(toks, node, r.pos))
      ELSE Fail))
  ELSE Parsed(left, p)

parseAnd(toks, p) ==
  Bind(parseNot(toks, p), LAMBDA l :
    IF l.ok THEN parseAndRest(toks, l.expr, l.pos) ELSE Fail)

parseOrRest(toks, left, p) ==
  IF IsKw(toks, p, Text_or) THEN
    Bind(p + 1, LAMBDA k :
    Bind(parseAnd(toks, k), LAMBDA r :
      IF r.ok
      THEN Bind(OrExpr(left, r.expr), LAMBDA node : parseOrRest(toks, node, r.pos))
      ELSE Fail))
  ELSE Parsed(left, p)

parseOr(toks, p) ==
  Bind(parseAnd(toks, p), LAMBDA l :
    IF l.ok THEN parseOrRest(toks, l.expr, l.pos) ELSE Fail)

\* parser.Parse of the pseudo query: (WHERE expression, err)
Parse(rawFilters) ==
  Bind(tokenize(rawFilters, 1), LAMBDA toks :
  Bind(parseOr(toks, 1), LAMBDA r :
    IF r.ok /\ r.pos = Len(toks) + 1 THEN [err |-> FALSE, expr |-> r.expr]
    ELSE [err |-> TRUE]))

(***************************************************************************)
(* Lowering the syntax tree to a Condition (GenericFilterVisitor)          *)
(***************************************************************************)

operatorText(op) ==
  CASE op = "EQ" -> <<"=">>
    [] op = "NE" -> <<"!", "=">>
    [] op = "LT" -> <<"<">>
    [] op = "LE" -> <<"<", "=">>
    [] op = "GT" -> <<">">>
    [] op = "GE" -> <<">", "=">>
    [] op = "Like" -> <<"L", "I", "K", "E">>
    [] op = "ILike" -> <<"I", "L", "I", "K", "E">>
    [] op = "NotLike" -> <<"N", "O", "T", " ", "L", "I", "K", "E">>
    [] op = "NotILike" -> <<"N", "O", "T", " ", "I", "L", "I", "K", "E">>

\* Expr.String(): the SQL text of a node
RECURSIVE exprString(_)
exprString(e) ==
  CASE e.node = "UnresolvedName" -> e.text
    [] e.node = "StrVal" -> <<Quote>> \o e.text \o <<Quote>>
    [] e.node = "NumVal" -> e.text
    [] e.node = "DBool" -> e.text
    [] e.node = "ParenExpr" -> <<"(">> \o exprString(e.expr) \o <<")">>
    [] e.node = "NotExpr" -> <<"N", "O", "T", " ">> \o exprString(e.expr)
    [] e.node = "AndExpr" ->
         exprString(e.left) \o <<" ", "A", "N", "D", " ">> \o exprString(e.right)
    [] e.node = "OrExpr" ->
         exprString(e.left) \o <<" ", "O", "R", " ">> \o exprString(e.right)
    [] e.node = "ComparisonExpr" ->
         exprString(e.left) \o <<" ">> \o operatorText(e.operator) \o <<" ">>
           \o exprString(e.right)

isAnyCall(str) == HasPrefix(str, AnyOpenText) /\ HasSuffix(str, <<")">>)

\* the operator switch of processComparisonExpr
conditionFor(operator, isAnyField, isAnyValue, fieldName, value, values) ==
  CASE operator = "EQ" ->
         IF isAnyField
         THEN (IF isAnyValue THEN AnyArrayContainsAnyCondition(fieldName, values)
               ELSE AnyArrayContainsCondition(fieldName, value))
         ELSE EqualCondition(fieldName, value)
    [] operator = "NE" ->
         IF isAnyField
         THEN (IF isAnyValue THEN AnyArrayNotContainsAnyCondition(fieldName, values)
               ELSE AnyArrayNotContainsCondition(fieldName, value))
         ELSE NotEqualCondition(fieldName, value)
    [] operator = "Like" -> LikeCondition(fieldName, value, FALSE)
    [] operator = "ILike" -> LikeCondition(fieldName, value, TRUE)
    [] operator = "GE" -> ComparisonCondition(fieldName, value, OpGE)
    [] operator = "GT" -> ComparisonCondition(fieldName, value, OpGT)
    [] operator = "LT" -> ComparisonCondition(fieldName, value, OpLT)
    [] operator = "LE" -> ComparisonCondition(fieldName, value, OpLE)
    [] OTHER -> EqualCondition(fieldName, value)

\* processComparisonExpr that knows the placeholder only as true compared
\* with true or with 1=1
processComparisonExprExactPlaceholder(node) ==
  Bind(exprString(node.left), LAMBDA leftStr :
  Bind(isAnyCall(leftStr), LAMBDA isAnyField :
  Bind(IF isAnyField THEN SubSeq(leftStr, 5, Len(leftStr) - 1) ELSE leftStr, LAMBDA fieldName :
  Bind(exprString(node.right), LAMBDA rightStr :
    IF fieldName = TrueText /\ (rightStr = TrueText \/ rightStr = <<"1", "=", "1">>)
    THEN alwaysTrueCondition
    ELSE
      Bind(isAnyCall(rightStr), LAMBDA isAnyValue :
      Bind(IF isAnyValue
           THEN Bind(SubSeq(rightStr, 5, Len(rightStr) - 1),
                     LAMBDA valuesStr : parseAnyValues(valuesStr).values)
           ELSE <<>>, LAMBDA values :
      Bind(IF isAnyValue THEN <<>>
           ELSE IF node.right.node = "StrVal" THEN node.right.text
           ELSE rightStr, LAMBDA value :
        conditionFor(node.operator, isAnyField, isAnyValue, fieldName, value, values))))))))

\* GenericFilterVisitor.processComparisonExpr
processComparisonExpr(node) ==
  Bind(exprString(node.left), LAMBDA leftStr :
  Bind(isAnyCall(leftStr), LAMBDA isAnyField :
  Bind(IF isAnyField THEN SubSeq(leftStr, 5, Len(leftStr) - 1) ELSE leftStr, LAMBDA fieldName :
    IF fieldName = TrueText \/ fieldName = FalseText THEN alwaysTrueCondition
    ELSE
      Bind(exprString(node.right), LAMBDA rightStr :
      Bind(isAnyCall(rightStr), LAMBDA isAnyValue :
      Bind(IF isAnyValue
           THEN Bind(SubSeq(rightStr, 5, Len(rightStr) - 1),
                     LAMBDA valuesStr : parseAnyValues(valuesStr).values)
           ELSE <<>>, LAMBDA values :
      Bind(IF isAnyValue THEN <<>>
           ELSE IF node.right.node = "StrVal" THEN node.right.text
           ELSE rightStr, LAMBDA value :
        conditionFor(node.operator, isAnyField, isAnyValue, fieldName, value, values))))))))

\* GenericFilterVisitor.evaluate(item) on a visitor whose root is rootCondition
gfvEvaluate(rootCondition, item) ==
  IF rootCondition.kind = "nil" THEN TRUE ELSE evaluate(rootCondition, item)

\* GenericFilterVisitor.processExpr
RECURSIVE processExpr(_)
processExpr(expr) ==
  CASE expr.node = "ComparisonExpr" -> processComparisonExpr(expr)
    [] expr.node = "AndExpr" -> AndCondition(processExpr(expr.left), processExpr(expr.right))
    [] expr.node = "OrExpr" -> OrCondition(processExpr(expr.left), processExpr(expr.right))
    [] OTHER -> alwaysTrueCondition

(***************************************************************************)
(* ParseFilter and AstVisitor (visitor.go): the syntax tree as a list of   *)
(* query-builder expressions.  tree.WalkExpr and Expr.Walk are the         *)
(* library's traversal: WalkExpr calls VisitPre on a node and, when that   *)
(* answers recurse, Walk on the node, which runs WalkExpr on each operand  *)
(* from left to right.                                                     *)
(***************************************************************************)

\* goqu.C(column).Eq(value), .Neq(value), .Like(value), ...
GoquComparison(column, operator, value) ==
  [q |-> "C", column |-> column, operator |-> operator, value |-> value]

\* goqu.And(expressions...)
GoquAnd(expressions) == [q |-> "And", expressions |-> expressions]

\* goqu.Or(expressions...)
GoquOr(expressions) == [q |-> "Or", expressions |-> expressions]

\* processComparison(node): the column of the left operand compared with the
\* literal of the right operand
processComparison(node) ==
  GoquComparison(exprString(node.left), node.operator, node.right.text)

RECURSIVE WalkExpr(_, _), Walk(_, _)

\* AstVisitor.VisitPre that answers recurse after grouping an AND or OR node
VisitPreDescends(expressions, expr) ==
  CASE expr.node = "ComparisonExpr" ->
         [recurse |-> FALSE, expressions |-> Append(expressions, processComparison(expr))]
    [] expr.node = "AndExpr" ->
         Bind(Walk(<<>>, expr), LAMBDA aw :
           [recurse |-> TRUE, expressions |-> Append(expressions, GoquAnd(aw))])
    [] expr.node = "OrExpr" ->
         Bind(Walk(<<>>, expr), LAMBDA aw :
           [recurse |-> TRUE, expressions |-> Append(expressions, GoquOr(aw))])
    [] OTHER -> [recurse |-> TRUE, expressions |-> expressions]

\* AstVisitor.VisitPre(expr) on a visitor that holds expressions: the answer
\* recurse and the expressions the visitor holds afterwards
VisitPre(expressions, expr) ==
  CASE expr.node = "ComparisonExpr" ->
         [recurse |-> FALSE, expressions |-> Append(expressions, processComparison(expr))]
    [] expr.node = "AndExpr" ->
         Bind(Walk(<<>>, expr), LAMBDA aw :
           [recurse |-> FALSE, expressions |-> Append(expressions, GoquAnd(aw))])
    [] expr.node = "OrExpr" ->
         Bind(Walk(<<>>, expr), LAMBDA aw :
           [recurse |-> FALSE, expressions |-> Append(expressions, GoquOr(aw))])
    [] OTHER -> [recurse |-> TRUE, expressions |-> expressions]

\* tree.WalkExpr(v, expr): what v holds afterwards (VisitPost changes nothing)
WalkExpr(expressions, expr) ==
  Bind(VisitPre(expressions, expr), LAMBDA r :
    IF r.recurse THEN Walk(r.expressions, expr) ELSE r.expressions)

\* expr.Walk(v): WalkExpr on the operands of the node, left to right
Walk(expressions, expr) ==
  CASE expr.node \in {"AndExpr", "OrExpr", "ComparisonExpr"} ->
         Bind(WalkExpr(expressions, expr.left), LAMBDA l : WalkExpr(l, expr.right))
    [] expr.node \in {"ParenExpr", "NotExpr"} -> WalkExpr(expressions, expr.expr)
    [] OTHER -> expressions

\* ParseFilter after parsing: the operands of a top-level AND are walked by
\* the visitor itself, any other root is walked as one expression
walkWhere(expr) ==
  IF expr.node = "AndExpr" THEN Walk(<<>>, expr) ELSE WalkExpr(<<>>, expr)

(***************************************************************************)
(* ApplyFilter: combining the conditions, pagination                       *)
(***************************************************************************)

Text_1eq1 == <<"1", "=", "1">>

Text_AND == <<" ", "A", "N", "D", " ">>

Text_OR == <<" ", "O", "R", " ">>

\* anyConditions[0] AND anyConditions[1] AND ..., nested to the left
RECURSIVE andAll(_)
andAll(conds) ==
  IF Len(conds) = 1 THEN conds[1]
  ELSE AndCondition(andAll(SubSeq(conds, 1, Len(conds) - 1)), conds[Len(conds)])

\* a final condition that drops the parsed condition whenever there is an ANY
\* condition
finalConditionAnyOnly(rawFilters, parsedRoot, anyConditions) ==
  IF Len(anyConditions) > 0 THEN andAll(anyConditions) ELSE parsedRoot

\* lines 113-170 of ApplyFilter: the final condition
finalConditionOf(rawFilters, parsedRoot, anyConditions) ==
  LET wholePlaceholder == rawFilters = Text_1eq1 \/ rawFilters = TrueText
      rootCondition == IF wholePlaceholder /\ Len(anyConditions) > 0
                       THEN NilCondition ELSE parsedRoot
  IN  IF wholePlaceholder \/ isAlwaysTrueCondition(rootCondition)
      THEN (IF Len(anyConditions) >= 1 THEN andAll(anyConditions) ELSE alwaysTrueCondition)
      ELSE IF Len(anyConditions) > 0
      THEN (IF Contains(rawFilters, Text_AND)
            THEN AndCondition(andAll(anyConditions), rootCondition)
            ELSE IF Contains(rawFilters, Text_OR)
            THEN OrCondition(andAll(anyConditions), rootCondition)
            ELSE andAll(anyConditions))
      ELSE rootCondition

\* the test of the filter loop
matches(finalCondition, item) == finalCondition.kind = "nil" \/ evaluate(finalCondition, item)

\* applyPagination with the limit applied before the offset
applyPaginationLimitFirst(items, options) ==
  LET cut == IF options.Limit > 0 /\ options.Limit < Len(items)
             THEN SubSeq(items, 1, options.Limit) ELSE items
  IN  IF options.Offset > Len(cut) THEN <<>> ELSE SubSeq(cut, options.Offset + 1, Len(cut))

\* applyPagination with a window that ends one element after the limit
applyPaginationLimitInclusive(items, options) ==
  LET totalItems == Len(items)
      offset     == options.Offset
      rest       == SubSeq(items, offset + 1, totalItems)
      limit      == options.Limit
  IN  IF offset > totalItems THEN <<>>
      ELSE IF limit > 0 /\ limit < Len(rest) THEN SubSeq(rest, 1, limit + 1)
      ELSE rest

\* applyPagination(items, options), for options.Offset >= 0
applyPagination(items, options) ==
  LET totalItems == Len(items)
      offset     == options.Offset
      rest       == SubSeq(items, offset + 1, totalItems)
      limit      == options.Limit
  IN  IF offset > totalItems THEN <<>>
      ELSE IF limit > 0 /\ limit < Len(rest) THEN SubSeq(rest, 1, limit)
      ELSE rest

\* Result[T]{}
EmptyResult == [Items |-> <<>>, Count |-> 0]

DefaultFilterOptions == [Limit |-> 0, Offset |-> 0]

(***************************************************************************)
(* The inputs of the model: records, collections, filter texts, options    *)
(***************************************************************************)

\* longest collection, and largest limit and offset, of the paging runs
MaxItems == 3

MaxLimit == 2

MaxOffset == 2

\* longest collection of the evaluation runs and of the concurrent runs
MaxEvalItems == 2

\* number of calls that run concurrently
MaxCalls == 2

N_Name == <<"N", "a", "m", "e">>

N_Age == <<"A", "g", "e">>

N_Tags == <<"T", "a", "g", "s">>

N_Scores == <<"S", "c", "o", "r", "e", "s">>

N_Dept == <<"D", "e", "p", "t">>

N_Zip == <<"Z", "i", "p">>

\* dotted paths
N_DeptName == <<"D", "e", "p", "t", ".", "N", "a", "m", "e">>

N_DeptTags == <<"D", "e", "p", "t", ".", "T", "a", "g", "s">>

N_NameX == <<"N", "a", "m", "e", ".", "X">>

V_Al == <<"A", "l">>

V_Bo == <<"B", "o">>

V_Eng == <<"E", "n", "g">>

V_Ops == <<"O", "p", "s">>

V_js == <<"j", "s">>

V_go == <<"g", "o">>

V_py == <<"p", "y">>

V_10 == <<"1", "0">>

V_90 == <<"9", "0">>

V_1x == <<"1", "x">>

V_10_0 == <<"1", "0", ".", "0">>

Member(n, v) == [name |-> n, val |-> v]

GoStrings(texts) == GoSlice([i \in 1..Len(texts) |-> GoString(texts[i])])

GoInts(ns) == GoSlice([i \in 1..Len(ns) |-> GoInt(ns[i])])

\* a struct value with every member set
Alice ==
  GoStruct(<< Member(N_Name, GoString(V_Al)), Member(N_Age, GoInt(9)),
              Member(N_Tags, GoStrings(<<V_js, V_go>>)), Member(N_Scores, GoInts(<<90, 7>>)),
              Member(N_Dept, GoPtr(GoStruct(<<Member(N_Name, GoString(V_Eng)),
                                              Member(N_Tags, GoStrings(<<V_js>>))>>))) >>)

\* a pointer to a struct with empty arrays and a nil Dept pointer
Bob ==
  GoPtr(GoStruct(<< Member(N_Name, GoString(V_Bo)), Member(N_Age, GoInt(10)),
                    Member(N_Tags, GoStrings(<<>>)), Member(N_Scores, GoInts(<<>>)),
                    Member(N_Dept, GoNilPtr) >>))

\* a struct of another type: numeric text in Name, text in Age, an empty string
\* among the Tags, a Scores member that is no array, Dept held by value
Carol ==
  GoStruct(<< Member(N_Name, GoString(V_10)), Member(N_Age, GoString(V_1x)),
              Member(N_Tags, GoStrings(<<<<>>, V_py>>)), Member(N_Scores, GoString(V_90)),
              Member(N_Dept, GoStruct(<<Member(N_Name, GoString(V_Ops)),
                                        Member(N_Tags, GoString(V_js))>>)) >>)

\* an element that is no struct
Scalar == GoString(V_Al)

\* a nil pointer element
NilItem == GoNilPtr

V_Da == <<"D", "a">>

N_TAGS == <<"T", "A", "G", "S">>

\* a struct of a type that declares a member TAGS before its member Tags
Dana ==
  GoStruct(<< Member(N_Name, GoString(V_Da)), Member(N_TAGS, GoStrings(<<V_py>>)),
              Member(N_Tags, GoStrings(<<V_js>>)) >>)

PagePool == <<Alice, Bob, Scalar>>

EvalPool == <<Alice, Bob, Carol, Scalar, NilItem>>

\* all sequences of at most n elements of pool
SeqsUpTo(pool, n) ==
  UNION {{[i \in 1..k |-> pool[ix[i]]] : ix \in [1..k -> 1..Len(pool)]} : k \in 0..n}

PageCollections == SeqsUpTo(PagePool, MaxItems)

EvalCollections == SeqsUpTo(EvalPool, MaxEvalItems)

PageOptions == {[Limit |-> l, Offset |-> o] : l \in 0..MaxLimit, o \in 0..MaxOffset}

EvalOptions == {DefaultFilterOptions}

\* building filter texts
Str(v) == <<Quote>> \o v \o <<Quote>>

Cmp(field, op, lit) == field \o op \o lit

AnyOf(field) == AnyOpenText \o field \o <<")">>

AnyCmp(field, op, rhs) == AnyOf(field) \o <<" ">> \o op \o <<" ">> \o rhs

RECURSIVE JoinComma(_)
JoinComma(texts) ==
  IF texts = <<>> THEN <<>>
  ELSE IF Len(texts) = 1 THEN texts[1]
  ELSE texts[1] \o <<",", " ">> \o JoinComma(Tail(texts))

\* ANY('v1', 'v2', ...)
AnyList(vs) == AnyOpenText \o JoinComma([i \in 1..Len(vs) |-> Str(vs[i])]) \o <<")">>

T_EQ == <<"=">>

T_NE == <<"!", "=">>

T_LIKE == <<" ", "L", "I", "K", "E", " ">>

T_ILIKE == <<" ", "I", "L", "I", "K", "E", " ">>

OrderOps == {OpLT, OpLE, OpGT, OpGE}

\* malformed texts: an unmatched token, a comparison with no right operand, an
\* unclosed parenthesis, an unclosed quote in an ANY list
F_Quack == <<"q", "u", "a", "c", "k", "?">>

F_NoOperand == <<"A", "g", "e", " ", ">", "=">>

F_Unclosed == <<"(", "A", "g", "e", " ", "=", " ", "9">>

F_LoneQuote == AnyCmp(N_Tags, T_EQ, AnyOpenText \o <<Quote, ")">>)

MalformedFilters == {F_Quack, F_NoOperand, F_Unclosed, F_LoneQuote}

\* comparisons with <, <=, >, >= on a number and on a text member
CmpFields == {N_Age, N_Name}

CmpLiterals == {V_10, Str(V_10), V_10_0, Str(V_Al)}

OrderFilters == {Cmp(f, op, lit) : f \in CmpFields, op \in OrderOps, lit \in CmpLiterals}

\* comparisons on paths that do not resolve on some or on all records
MissingFields == {N_Zip, N_DeptName, N_NameX}

ScalarOps == {T_EQ, T_NE, T_LIKE, T_ILIKE} \cup OrderOps

MissingFilters == {Cmp(f, op, Str(V_Al)) : f \in MissingFields, op \in ScalarOps}

\* ANY comparisons
AnyFields == {N_Tags, N_Scores, N_Zip, N_DeptTags, N_Dept}

AnyValues == {V_js, V_90, <<>>}

AnyLists == {<<V_js, V_py>>, <<V_90>>, <<<<>>>>}

AnyOps == {T_EQ, T_NE}

AnySingleFilters == {AnyCmp(f, op, Str(v)) : f \in AnyFields, op \in AnyOps, v \in AnyValues}

AnyListFilters == {AnyCmp(f, op, AnyList(vs)) : f \in AnyFields, op \in AnyOps, vs \in AnyLists}

F_AnyBare == AnyCmp(N_Scores, T_EQ, V_90)

AnyFilters == AnySingleFilters \cup AnyListFilters \cup {F_AnyBare}

V_9 == <<"9">>

\* LIKE patterns in which "%" is the only wildcard: several "%", one inside
\* the pattern, and the shapes with a single "%" in front, behind or both
LikePercentPatterns ==
  {<<"%", "A", "%", "l", "%">>, <<"A", "%", "l", "%">>, <<"%", "A", "%", "l">>, <<"A", "%", "l">>,
   <<"%", "l", "%">>, <<"A", "%">>, <<"%", "l">>, <<"%">>,
   <<"%", "B", "%">>, <<"B", "%", "o", "%", "o">>}

\* LIKE patterns with "_"
LikeUnderscorePatterns ==
  {<<"A", "_">>, <<"%", "A", "_", "%">>, <<"A", "_", "%">>, <<"%", "_", "l">>, <<"_", "%", "l">>, <<"_">>}

\* LIKE patterns that differ from the names in letter case
LikeCasePatterns ==
  {<<"a", "l">>, <<"A", "L">>, <<"A", "l">>, <<"%", "A", "L", "%">>,
   <<"a", "%">>, <<"%", "L">>, <<"a", "%", "L">>}

\* mixed patterns: a "%" inside, none at either end, and a character that is
\* an operator of regular expressions among the literal ones
LikeOperatorPatterns ==
  {<<"A", "%", ".">>,
   <<".", "%", "l">>,
   <<"A", "%", "l", "?">>,
   <<"A", "%", "l", "*">>,
   <<"A", "%", "l", "+">>,
   <<"(", "A", "%", "l", ")">>,
   <<"[", "A", "]", "%", "l">>,
   <<"A", "%", "l", "{", "1", "}">>,
   <<"A", "|", "%", "l">>,
   <<"^", "A", "%", "l">>,
   <<"A", "%", "l", "$">>,
   <<"1", "%", "0">>}

P_1Back0 == <<"1", "\\", "%", "0">>

P_ABackl == <<"A", "\\", "%", "l">>

P_BackdBackd == <<"\\", "d", "%", "\\", "d">>

P_BBacko == <<"B", "%", "\\", "o">>

LikeBackslashPatterns == {P_1Back0, P_ABackl, P_BackdBackd, P_BBacko}

LikeLiteralPatterns == LikeOperatorPatterns \cup LikeBackslashPatterns

LikePatterns ==
  LikePercentPatterns \cup LikeUnderscorePatterns \cup LikeCasePatterns
    \cup LikeLiteralPatterns

LikeFilters == {Cmp(N_Name, op, Str(p)) : op \in {T_LIKE, T_ILIKE}, p \in LikePatterns}

\* comparisons joined by AND and OR, with and without parentheses
F_ParenAge9 == <<"(", "A", "g", "e", " ", "=", " ", "9", ")">>

F_ParenOrAnd == <<"(", "A", "g", "e", " ", "=", " ", "9", " ", "O", "R", " ", "A", "g", "e", " ", "=", " ", "1", "0", ")", " ", "A", "N", "D", " ", "N", "a", "m", "e", " ", "=", " ", "'", "B", "o", "'">>

F_AndParenOr == <<"N", "a", "m", "e", " ", "=", " ", "'", "B", "o", "'", " ", "A", "N", "D", " ", "(", "A", "g", "e", " ", "=", " ", "9", " ", "O", "R", " ", "N", "a", "m", "e", " ", "=", " ", "'", "1", "0", "'", ")">>

F_OrAnd == <<"A", "g", "e", " ", "=", " ", "9", " ", "O", "R", " ", "A", "g", "e", " ", "=", " ", "1", "0", " ", "A", "N", "D", " ", "N", "a", "m", "e", " ", "=", " ", "'", "B", "o", "'">>

F_And == <<"A", "g", "e", " ", "=", " ", "9", " ", "A", "N", "D", " ", "N", "a", "m", "e", " ", "=", " ", "'", "B", "o", "'">>

F_Or == <<"A", "g", "e", " ", "=", " ", "9", " ", "O", "R", " ", "N", "a", "m", "e", " ", "=", " ", "'", "1", "0", "'">>

BoolFilters == {F_ParenAge9, F_ParenOrAnd, F_AndParenOr, F_OrAnd, F_And, F_Or}

\* conjunctions of ANY comparisons and plain comparisons, joined by " AND "
F_AnyAndName == <<"A", "N", "Y", "(", "T", "a", "g", "s", ")", " ", "=", " ", "'", "j", "s", "'", " ", "A", "N", "D", " ", "N", "a", "m", "e", " ", "=", " ", "'", "B", "o", "'">>

F_NameAndAny == <<"N", "a", "m", "e", " ", "=", " ", "'", "A", "l", "'", " ", "A", "N", "D", " ", "A", "N", "Y", "(", "T", "a", "g", "s", ")", " ", "=", " ", "'", "j", "s", "'">>

F_NotAnyAndAge == <<"A", "N", "Y", "(", "T", "a", "g", "s", ")", " ", "!", "=", " ", "'", "j", "s", "'", " ", "A", "N", "D", " ", "A", "g", "e", " ", ">", "=", " ", "1", "0">>

F_AgeAnyName == <<"A", "g", "e", " ", ">", "=", " ", "9", " ", "A", "N", "D", " ", "A", "N", "Y", "(", "T", "a", "g", "s", ")", " ", "=", " ", "'", "j", "s", "'", " ", "A", "N", "D", " ", "N", "a", "m", "e", " ", "=", " ", "'", "A", "l", "'">>

F_AnyListAndName == <<"A", "N", "Y", "(", "T", "a", "g", "s", ")", " ", "=", " ", "A", "N", "Y", "(", "'", "j", "s", "'", ",", " ", "'", "p", "y", "'", ")", " ", "A", "N", "D", " ", "N", "a", "m", "e", " ", "=", " ", "'", "1", "0", "'">>

F_AnyAndAny == <<"A", "N", "Y", "(", "T", "a", "g", "s", ")", " ", "=", " ", "'", "j", "s", "'", " ", "A", "N", "D", " ", "A", "N", "Y", "(", "S", "c", "o", "r", "e", "s", ")", " ", "=", " ", "'", "9", "0", "'">>

F_NotAnyAndNotAny == <<"A", "N", "Y", "(", "T", "a", "g", "s", ")", " ", "!", "=", " ", "'", "j", "s", "'", " ", "A", "N", "D", " ", "A", "N", "Y", "(", "S", "c", "o", "r", "e", "s", ")", " ", "!", "=", " ", "'", "9", "0", "'">>

ConjFilters ==
  {F_AnyAndName, F_NameAndAny, F_NotAnyAndAge, F_AgeAnyName, F_AnyListAndName, F_AnyAndAny,
   F_NotAnyAndNotAny}

\* disjunctions with an ANY comparison, joined by " OR "
F_AnyOrName == <<"A", "N", "Y", "(", "T", "a", "g", "s", ")", " ", "=", " ", "'", "j", "s", "'", " ", "O", "R", " ", "N", "a", "m", "e", " ", "=", " ", "'", "B", "o", "'">>

F_NameOrAny == <<"N", "a", "m", "e", " ", "=", " ", "'", "B", "o", "'", " ", "O", "R", " ", "A", "N", "Y", "(", "T", "a", "g", "s", ")", " ", "=", " ", "'", "p", "y", "'">>

F_AnyOrAny == <<"A", "N", "Y", "(", "T", "a", "g", "s", ")", " ", "=", " ", "'", "j", "s", "'", " ", "O", "R", " ", "A", "N", "Y", "(", "S", "c", "o", "r", "e", "s", ")", " ", "=", " ", "'", "9", "0", "'">>

DisjFilters == {F_AnyOrName, F_NameOrAny, F_AnyOrAny}

\* the same with the keyword in small letters
F_AnyAndName_lc == <<"A", "N", "Y", "(", "T", "a", "g", "s", ")", " ", "=", " ", "'", "j", "s", "'", " ", "a", "n", "d", " ", "N", "a", "m", "e", " ", "=", " ", "'", "B", "o", "'">>

F_NameAndAny_lc == <<"N", "a", "m", "e", " ", "=", " ", "'", "A", "l", "'", " ", "a", "n", "d", " ", "A", "N", "Y", "(", "T", "a", "g", "s", ")", " ", "=", " ", "'", "j", "s", "'">>

F_NotAnyAndAge_lc == <<"A", "N", "Y", "(", "T", "a", "g", "s", ")", " ", "!", "=", " ", "'", "j", "s", "'", " ", "a", "n", "d", " ", "A", "g", "e", " ", ">", "=", " ", "1", "0">>

F_And_lc == <<"A", "g", "e", " ", "=", " ", "9", " ", "a", "n", "d", " ", "N", "a", "m", "e", " ", "=", " ", "'", "B", "o", "'">>

F_Or_lc == <<"A", "g", "e", " ", "=", " ", "9", " ", "o", "r", " ", "N", "a", "m", "e", " ", "=", " ", "'", "1", "0", "'">>

F_OrAnd_lc == <<"A", "g", "e", " ", "=", " ", "9", " ", "o", "r", " ", "A", "g", "e", " ", "=", " ", "1", "0", " ", "a", "n", "d", " ", "N", "a", "m", "e", " ", "=", " ", "'", "B", "o", "'">>

LowerKeywordFilters ==
  {F_AnyAndName_lc, F_NameAndAny_lc, F_NotAnyAndAge_lc, F_And_lc, F_Or_lc, F_OrAnd_lc}

\* expressions that are no comparison, AND or OR: a negation, a bare name, a
\* bare boolean
F_NotNameAl == <<"N", "O", "T", " ", "N", "a", "m", "e", " ", "=", " ", "'", "A", "l", "'">>

F_BareName == <<"N", "a", "m", "e">>

F_BareTrue == <<"t", "r", "u", "e">>

OtherExprFilters == {F_NotNameAl, F_BareName, F_BareTrue}

\* comparisons whose left operand is the word true or false
PlaceholderWords == {TrueText, FalseText}

PlaceholderLiterals == {Str(V_Al), V_10, TrueText}

PlaceholderFilters ==
  {Cmp(w, op, lit) : w \in PlaceholderWords, op \in ScalarOps, lit \in PlaceholderLiterals}

\* one field named in several letter cases, in comparisons and in ANY
F_Name_Al == <<"N", "a", "m", "e", " ", "=", " ", "'", "A", "l", "'">>

F_AnyTags_js == <<"A", "N", "Y", "(", "T", "a", "g", "s", ")", " ", "=", " ", "'", "j", "s", "'">>

F_name_Al == <<"n", "a", "m", "e", " ", "=", " ", "'", "A", "l", "'">>

F_NAME_Al == <<"N", "A", "M", "E", " ", "=", " ", "'", "A", "l", "'">>

F_DeptName_Eng == <<"D", "e", "p", "t", ".", "N", "a", "m", "e", " ", "=", " ", "'", "E", "n", "g", "'">>

F_deptname_Eng == <<"d", "e", "p", "t", ".", "n", "a", "m", "e", " ", "=", " ", "'", "E", "n", "g", "'">>

F_DEPTname_Eng == <<"D", "E", "P", "T", ".", "n", "a", "m", "e", " ", "=", " ", "'", "E", "n", "g", "'">>

F_Anytags_js == <<"A", "N", "Y", "(", "t", "a", "g", "s", ")", " ", "=", " ", "'", "j", "s", "'">>

F_AnytAGS_js == <<"A", "N", "Y", "(", "t", "A", "G", "S", ")", " ", "=", " ", "'", "j", "s", "'">>

F_Anytags_py == <<"A", "N", "Y", "(", "t", "a", "g", "s", ")", " ", "=", " ", "'", "p", "y", "'">>

F_AnyTAGS_py == <<"A", "N", "Y", "(", "T", "A", "G", "S", ")", " ", "=", " ", "'", "p", "y", "'">>

F_AnyDeptTags_js == <<"A", "N", "Y", "(", "D", "e", "p", "t", ".", "T", "a", "g", "s", ")", " ", "=", " ", "'", "j", "s", "'">>

F_Anydepttags_js == <<"A", "N", "Y", "(", "d", "e", "p", "t", ".", "t", "a", "g", "s", ")", " ", "=", " ", "'", "j", "s", "'">>

F_AnyTags_ne_js == <<"A", "N", "Y", "(", "T", "a", "g", "s", ")", " ", "!", "=", " ", "'", "j", "s", "'">>

F_Anytags_ne_js == <<"A", "N", "Y", "(", "t", "a", "g", "s", ")", " ", "!", "=", " ", "'", "j", "s", "'">>

CaseFilters ==
  {F_Name_Al, F_name_Al, F_NAME_Al, F_DeptName_Eng, F_deptname_Eng, F_DEPTname_Eng,
   F_AnyTags_js, F_Anytags_js, F_AnytAGS_js, F_Anytags_py, F_AnyTAGS_py,
   F_AnyDeptTags_js, F_Anydepttags_js, F_AnyTags_ne_js, F_Anytags_ne_js}

CaseCollections == SeqsUpTo(<<Alice, Bob, Carol, Dana>>, MaxEvalItems)

\* texts that hold what reads as a percent-escape, a plus sign, a space
F_LikePct41 == <<"N", "a", "m", "e", " ", "L", "I", "K", "E", " ", "'", "%", "4", "1", "'">>

F_LikeAPct2Bl == <<"N", "a", "m", "e", " ", "L", "I", "K", "E", " ", "'", "A", "%", "2", "B", "l", "'">>

F_NamePlus == <<"N", "a", "m", "e", " ", "=", " ", "'", "A", "+", "l", "'">>

F_NameSpace == <<"N", "a", "m", "e", " ", "=", " ", "'", "A", " ", "l", "'">>

EscapeFilters == {F_LikePct41, F_LikeAPct2Bl, F_NamePlus, F_NameSpace}

F_AgeGE9 == Cmp(N_Age, OpGE, V_9)

F_NameEqAl == Cmp(N_Name, T_EQ, Str(V_Al))

F_AnyTagsJs == AnyCmp(N_Tags, T_EQ, Str(V_js))

PageFilters == {<<>>, F_AgeGE9, F_NameEqAl, F_AnyTagsJs} \cup MalformedFilters

\* the concurrent runs: calls with these texts on one shared collection
ConcFilters == {<<>>, F_AgeGE9, F_AnyTagsJs, F_Quack}

ConcCollections == SeqsUpTo(<<Alice, Bob>>, MaxEvalItems)

EvalFilters ==
  {<<>>} \cup MalformedFilters \cup OrderFilters \cup MissingFilters \cup AnyFilters
    \cup LikeFilters \cup BoolFilters \cup ConjFilters \cup DisjFilters \cup LowerKeywordFilters
    \cup OtherExprFilters \cup PlaceholderFilters \cup EscapeFilters

(***************************************************************************)
(* ApplyFilter as a state machine: one call at a time, then the next call  *)
(* on the same filter text and collection with other options.              *)
(***************************************************************************)

VARIABLES
  filterText,      \* the rawFilters argument of the call
  items,           \* the items argument
  opts,            \* the options in force
  pc,              \* position of the call: start, decode, parse, combine, filter,
                   \* done (returned) or panic (ended by a run-time panic)
  rawFilters,      \* the local rawFilters after preprocessing and decoding
  processedFilter, \* result of preprocessAnyOperator
  anyConditions,   \* result of preprocessAnyOperator
  rootCondition,   \* gfv.rootCondition
  finalCondition,
  filteredItems,
  idx,             \* index of the next item of the filter loop
  visited,         \* indices of the items the loop has evaluated, in order
  result,          \* the returned Result
  err,             \* whether the returned error is non-nil
  prev,            \* what an earlier call on this text and collection returned
  calls,           \* the calls that run concurrently on items, each with its locals
  whereExpr,       \* ParseFilter: the WHERE expression of the parsed text
  expressions      \* ParseFilter: the expressions the AstVisitor holds

vars == <<filterText, items, opts, pc, rawFilters, processedFilter, anyConditions,
          rootCondition, finalCondition, filteredItems, idx, visited, result, err, prev,
          calls, whereExpr, expressions>>

NoPrev == [some |-> FALSE]

\* no syntax tree yet
NilExpr == [node |-> "nil"]

LocalsReset ==
  /\ rawFilters = <<>>
  /\ processedFilter = <<>>
  /\ anyConditions = <<>>
  /\ rootCondition = NilCondition
  /\ finalCondition = NilCondition
  /\ filteredItems = <<>>
  /\ idx = 1
  /\ visited = <<>>
  /\ result = EmptyResult
  /\ err = FALSE
  /\ whereExpr = NilExpr
  /\ expressions = <<>>

InitWith(filters, collections, options) ==
  /\ filterText \in filters
  /\ items \in collections
  /\ opts \in options
  /\ pc = "start"
  /\ prev = NoPrev
  /\ calls = <<>>
  /\ LocalsReset

Init == InitWith(PageFilters, PageCollections, PageOptions)

InitEval ==
  \/ InitWith(EvalFilters, EvalCollections, EvalOptions)
  \/ InitWith(CaseFilters, CaseCollections, EvalOptions)

\* return Result[T]{...}, err
Return(res, e) ==
  /\ result' = res
  /\ err' = e
  /\ pc' = "done"

\* the empty-filter result computed over the elements that are structs or
\* pointers only
emptyFilterResultStructsOnly(all, options) ==
  Bind(SelectSeq(all, LAMBDA x : x.kind \in {"struct", "ptr"}), LAMBDA kept :
    [Items |-> applyPagination(kept, options), Count |-> Len(kept)])

\* lines 64-67: the Result of the empty filter
emptyFilterResult(all, options) ==
  [Items |-> applyPagination(all, options), Count |-> Len(all)]

\* lines 62-68: the empty filter
EmptyFilter ==
  /\ pc = "start"
  /\ filterText = <<>>
  /\ Return(emptyFilterResult(items, opts), FALSE)
  /\ UNCHANGED <<whereExpr, expressions, calls, filterText, items, opts, prev, rawFilters, processedFilter, anyConditions,
                 rootCondition, finalCondition, filteredItems, idx, visited>>

\* lines 70-75: preprocessAnyOperator
Preprocess ==
  /\ pc = "start"
  /\ filterText # <<>>
  /\ \E r \in {preprocessAnyOperator(filterText)} :
         IF r.panic
         THEN /\ pc' = "panic"
              /\ UNCHANGED <<processedFilter, anyConditions>>
         ELSE /\ pc' = "decode"
              /\ processedFilter' = r.filter
              /\ anyConditions' = r.conds
  /\ UNCHANGED <<whereExpr, expressions, calls, filterText, items, opts, prev, rawFilters, rootCondition, finalCondition,
                 filteredItems, idx, visited, result, err>>

\* lines 77-82: url.QueryEscape then url.QueryUnescape
Decode ==
  /\ pc = "decode"
  /\ \E escaped \in {QueryEscape(processedFilter)} : \E u \in {QueryUnescape(escaped)} :
         IF u.err
         THEN /\ Return(EmptyResult, TRUE)
              /\ UNCHANGED rawFilters
         ELSE /\ rawFilters' = u.text
              /\ pc' = "parse"
              /\ UNCHANGED <<result, err>>
  /\ UNCHANGED <<whereExpr, expressions, calls, filterText, items, opts, prev, processedFilter, anyConditions, rootCondition,
                 finalCondition, filteredItems, idx, visited>>

\* lines 84-105: parser.Parse, then the walk that lowers the WHERE expression
ParseAndLower ==
  /\ pc = "parse"
  /\ \E q \in {Parse(rawFilters)} :
         IF q.err
         THEN /\ Return(EmptyResult, TRUE)
              /\ UNCHANGED rootCondition
         ELSE /\ rootCondition' = processExpr(q.expr)
              /\ pc' = "combine"
              /\ UNCHANGED <<result, err>>
  /\ UNCHANGED <<whereExpr, expressions, calls, filterText, items, opts, prev, rawFilters, processedFilter, anyConditions,
                 finalCondition, filteredItems, idx, visited>>

\* lines 109-170: the final condition
Combine ==
  /\ pc = "combine"
  /\ finalCondition' = finalConditionOf(rawFilters, rootCondition, anyConditions)
  /\ filteredItems' = <<>>
  /\ idx' = 1
  /\ pc' = "filter"
  /\ UNCHANGED <<whereExpr, expressions, calls, filterText, items, opts, prev, rawFilters, processedFilter, anyConditions,
                 rootCondition, visited, result, err>>

\* the loop body of a loop that stops one item early
loopBodySkipsLast(i, acc) ==
  IF i < Len(items) /\ matches(finalCondition, items[i]) THEN Append(acc, items[i]) ELSE acc

\* lines 172-176, one iteration: filteredItems after item i
loopBody(i, acc) ==
  IF matches(finalCondition, items[i]) THEN Append(acc, items[i]) ELSE acc

\* the caller's collection after an iteration of a loop that builds
\* filteredItems in the array of items (filteredItems := items[:0])
callerItemsFilteredInPlace(i, acc) ==
  IF matches(finalCondition, items[i]) THEN [items EXCEPT ![Len(acc) + 1] = items[i]]
  ELSE items

\* lines 110 and 174: the caller's collection after one iteration; the append
\* writes into the array made for filteredItems and never into items
callerItems(i, acc) == items

EvalItem ==
  /\ pc = "filter"
  /\ idx <= Len(items)
  /\ filteredItems' = loopBody(idx, filteredItems)
  /\ items' = callerItems(idx, filteredItems)
  /\ visited' = Append(visited, idx)
  /\ idx' = idx + 1
  /\ UNCHANGED <<whereExpr, expressions, calls, filterText, opts, prev, pc, rawFilters,
                 processedFilter, anyConditions, rootCondition, finalCondition, result, err>>

\* the count taken after pagination
countAfterPagination(matched, options) == Len(applyPagination(matched, options))

\* the count taken after the offset was subtracted
countDroppingOffset(matched, options) == Len(matched) - options.Offset

\* a count kept in a variable that outlives the call
countAccumulated(matched, options) ==
  Len(matched) + (IF prev.some THEN prev.result.Count ELSE 0)

\* line 179: totalCount
totalCount(matched, options) == Len(matched)

\* lines 178-185: count, paginate, return
Finish ==
  /\ pc = "filter"
  /\ idx > Len(items)
  /\ Return([Items |-> applyPagination(filteredItems, opts),
             Count |-> totalCount(filteredItems, opts)], FALSE)
  /\ UNCHANGED <<whereExpr, expressions, calls, filterText, items, opts, prev, rawFilters, processedFilter, anyConditions,
                 rootCondition, finalCondition, filteredItems, idx, visited>>

\* the caller calls again with the same text and collection and other options;
\* prev keeps the outcome of the call that has returned, or of a call before it
Again(options) ==
  /\ pc = "done"
  /\ \E o \in options : opts' = o
  /\ \/ prev' = [some |-> TRUE, opts |-> opts, result |-> result, err |-> err,
                 cond |-> finalCondition]
     \/ prev.some /\ prev' = prev
  /\ pc' = "start"
  /\ rawFilters' = <<>>
  /\ processedFilter' = <<>>
  /\ anyConditions' = <<>>
  /\ rootCondition' = NilCondition
  /\ finalCondition' = NilCondition
  /\ filteredItems' = <<>>
  /\ idx' = 1
  /\ visited' = <<>>
  /\ result' = EmptyResult
  /\ err' = FALSE
  /\ UNCHANGED <<whereExpr, expressions, calls, filterText, items>>

Step == EmptyFilter \/ Preprocess \/ Decode \/ ParseAndLower \/ Combine \/ EvalItem \/ Finish

Next == Step \/ Again(PageOptions)

NextEval == Step \/ Again(EvalOptions)

\* paging runs: few filter texts, every collection and option
Spec == Init /\ [][Next]_vars

\* evaluation runs: every filter text on short collections, default options
SpecEval == InitEval /\ [][NextEval]_vars

(***************************************************************************)
(* Concurrent calls of ApplyFilter on one collection.  Every call has its  *)
(* own locals; the collection is the only value the calls have in common,  *)
(* and the steps of the calls interleave in any order.                     *)
(***************************************************************************)

\* ApplyFilter up to the filter loop (lines 62-170), which reads nothing but
\* the filter text: the empty filter, a panic, an error, or the final condition
prepare(text) ==
  IF text = <<>> THEN [outcome |-> "empty"]
  ELSE
    Bind(preprocessAnyOperator(text), LAMBDA r :
      IF r.panic THEN [outcome |-> "panic"]
      ELSE
        Bind(QueryEscape(r.filter), LAMBDA escaped :
        Bind(QueryUnescape(escaped), LAMBDA u :
          IF u.err THEN [outcome |-> "error"]
          ELSE
            Bind(Parse(u.text), LAMBDA q :
              IF q.err THEN [outcome |-> "error"]
              ELSE Bind(processExpr(q.expr), LAMBDA root :
                     [outcome |-> "ok",
                      cond |-> finalConditionOf(u.text, root, r.conds)])))))

\* the locals of a call that has not started
NewCall(text) ==
  [text |-> text, pc |-> "start", cond |-> NilCondition, filteredItems |-> <<>>, idx |-> 1,
   overlapped |-> FALSE, result |-> EmptyResult, err |-> FALSE]

InitConc ==
  /\ items \in ConcCollections
  /\ calls \in [1..MaxCalls -> {NewCall(text) : text \in ConcFilters}]
  /\ filterText = <<>>
  /\ opts = DefaultFilterOptions
  /\ pc = "idle"
  /\ prev = NoPrev
  /\ LocalsReset

\* a match list that all calls have in common
matchStoreShared(p) == 1

\* line 110: the filteredItems of call p is a local of that call
matchStore(p) == p

\* lines 62-170 of call p
ConcPrepare(p) ==
  /\ calls[p].pc = "start"
  /\ \E r \in {prepare(calls[p].text)} :
       calls' = [calls EXCEPT ![p] =
         CASE r.outcome = "empty" ->
                [@ EXCEPT !.pc = "done",
                          !.result = emptyFilterResult(items, DefaultFilterOptions)]
           [] r.outcome = "panic" -> [@ EXCEPT !.pc = "panic"]
           [] r.outcome = "error" -> [@ EXCEPT !.pc = "done", !.err = TRUE]
           [] r.outcome = "ok" -> [@ EXCEPT !.pc = "filter", !.cond = r.cond]]
  /\ UNCHANGED <<whereExpr, expressions, filterText, items, opts, pc, rawFilters, processedFilter, anyConditions,
                 rootCondition, finalCondition, filteredItems, idx, visited, result, err, prev>>

\* lines 172-176 of call p, one iteration
ConcEvalItem(p) ==
  /\ calls[p].pc = "filter"
  /\ calls[p].idx <= Len(items)
  /\ \E item \in {items[calls[p].idx]} : \E hit \in {matches(calls[p].cond, item)} :
       calls' = [calls EXCEPT
                   ![matchStore(p)].filteredItems = IF hit THEN Append(@, item) ELSE @,
                   ![p].idx = @ + 1,
                   ![p].overlapped =
                      @ \/ \E q \in DOMAIN calls : q # p /\ calls[q].pc = "filter"]
  /\ UNCHANGED <<whereExpr, expressions, filterText, items, opts, pc, rawFilters, processedFilter, anyConditions,
                 rootCondition, finalCondition, filteredItems, idx, visited, result, err, prev>>

\* lines 178-185 of call p
ConcFinish(p) ==
  /\ calls[p].pc = "filter"
  /\ calls[p].idx > Len(items)
  /\ \E matched \in {calls[matchStore(p)].filteredItems} :
       calls' = [calls EXCEPT
                   ![p].result = [Items |-> applyPagination(matched, DefaultFilterOptions),
                                  Count |-> totalCount(matched, DefaultFilterOptions)],
                   ![p].pc = "done"]
  /\ UNCHANGED <<whereExpr, expressions, filterText, items, opts, pc, rawFilters, processedFilter, anyConditions,
                 rootCondition, finalCondition, filteredItems, idx, visited, result, err, prev>>

NextConc == \E p \in 1..MaxCalls : ConcPrepare(p) \/ ConcEvalItem(p) \/ ConcFinish(p)

\* concurrent runs: MaxCalls calls on one collection, in every interleaving
SpecConc == InitConc /\ [][NextConc]_vars

(***************************************************************************)
(* ParseFilter as a state machine: the text is parsed, then the visitor    *)
(* walks the WHERE expression.                                             *)
(***************************************************************************)

Q_a == <<"a", "=", "'", "1", "'">>

Q_b == <<"b", "=", "'", "2", "'">>

Q_c == <<"c", "=", "'", "3", "'">>

Q_d == <<"d", "=", "'", "4", "'">>

AndText == <<" ", "A", "N", "D", " ">>

OrText == <<" ", "O", "R", " ">>

Keywords2 == {AndText, OrText}

Paren(x) == <<"(">> \o x \o <<")">>

\* one comparison, alone, in parentheses, negated, with other operators
F_Qa_Paren == Paren(Q_a)

F_Qa_Not == <<"N", "O", "T", " ", "a", "=", "'", "1", "'">>

F_Qa_Like == <<"a", " ", "L", "I", "K", "E", " ", "'", "%", "1", "%", "'">>

F_Qa_NE == <<"a", "!", "=", "'", "1", "'">>

ParseSingles == {<<>>, F_Quack, F_Unclosed, Q_a, F_Qa_Paren, F_Qa_Not, F_Qa_Like, F_Qa_NE}

\* a AND (b AND c) and a AND (b OR c)
F_AndParenAnd == Q_a \o AndText \o Paren(Q_b \o AndText \o Q_c)

F_AndParenOrQ == Q_a \o AndText \o Paren(Q_b \o OrText \o Q_c)

\* two, three and four comparisons under every choice of AND / OR, without
\* parentheses and with a group on either side
ParseFilters ==
  ParseSingles
    \cup {Q_a \o k1 \o Q_b : k1 \in Keywords2}
    \cup {Q_a \o k1 \o Q_b \o k2 \o Q_c : k1 \in Keywords2, k2 \in Keywords2}
    \cup {Q_a \o k1 \o Paren(Q_b \o k2 \o Q_c) : k1 \in Keywords2, k2 \in Keywords2}
    \cup {Paren(Q_a \o k1 \o Q_b) \o k2 \o Q_c : k1 \in Keywords2, k2 \in Keywords2}
    \cup {Q_a \o k1 \o Q_b \o k2 \o Q_c \o k3 \o Q_d :
            k1 \in Keywords2, k2 \in Keywords2, k3 \in Keywords2}
    \cup {Paren(Q_a \o k1 \o Q_b) \o k2 \o Paren(Q_c \o k3 \o Q_d) :
            k1 \in Keywords2, k2 \in Keywords2, k3 \in Keywords2}

InitParse ==
  /\ filterText \in ParseFilters
  /\ items = <<>>
  /\ opts = DefaultFilterOptions
  /\ pc = "start"
  /\ prev = NoPrev
  /\ calls = <<>>
  /\ LocalsReset

\* ParseFilter up to the walk: the empty text gives no expression and no
\* error, a text the parser rejects gives the parser's error
PfParse ==
  /\ pc = "start"
  /\ IF filterText = <<>>
     THEN /\ pc' = "done"
          /\ UNCHANGED <<whereExpr, err>>
     ELSE \E q \in {Parse(filterText)} :
            IF q.err
            THEN /\ pc' = "done"
                 /\ err' = TRUE
                 /\ UNCHANGED whereExpr
            ELSE /\ pc' = "walk"
                 /\ whereExpr' = q.expr
                 /\ UNCHANGED err
  /\ UNCHANGED <<expressions, calls, filterText, items, opts, prev, rawFilters,
                 processedFilter, anyConditions, rootCondition, finalCondition,
                 filteredItems, idx, visited, result>>

\* ParseFilter: the walk of the visitor, and the return of its expressions
PfWalk ==
  /\ pc = "walk"
  /\ expressions' = walkWhere(whereExpr)
  /\ pc' = "done"
  /\ UNCHANGED <<whereExpr, err, calls, filterText, items, opts, prev, rawFilters,
                 processedFilter, anyConditions, rootCondition, finalCondition,
                 filteredItems, idx, visited, result>>

NextParse == PfParse \/ PfWalk

\* translation runs: every text of ParseFilters
SpecParse == InitParse /\ [][NextParse]_vars

(***************************************************************************)
(* Properties.  What a record holds, and which records a filter text       *)
(* selects, are read off the declarations of Alice, Bob and Carol above    *)
(* and written down here as tables.  A property that relates two runs of   *)
(* the engine (ILIKE against LIKE) names the engine's operator on one side.*)
(***************************************************************************)

\* the call has returned with a nil error
Succeeded == pc = "done" /\ ~err

\* the ordered list of matching items of the call
Matched == IF filterText = <<>> THEN items ELSE filteredItems

InFiltered(x) == \E j \in 1..Len(filteredItems) : filteredItems[j] = x

\* the records a well-formed text of PageFilters selects
Selects(text, item) ==
  \/ text = <<>>
  \/ text = F_AgeGE9 /\ (item = Alice \/ item = Bob)
  \/ text = F_NameEqAl /\ item = Alice
  \/ text = F_AnyTagsJs /\ item = Alice

\* C1: a successful call returns a Result whose Count is at least the number
\* of its Items, whatever the filter text, the collection and the options.
C1_CountAtLeastItems == Succeeded => result.Count >= Len(result.Items)

\* a call that matched three items and returned one of them
C1_Witness ==
  /\ Succeeded
  /\ filterText = F_AgeGE9
  /\ opts.Limit = 1
  /\ Len(result.Items) = 1
  /\ result.Count = 3

\* C2: Count is the number of items of the collection the filter selects,
\* whatever the options are: two calls on the same text and collection return
\* the same Count, also when one of the windows is empty.
C2_CountIgnoresPagination ==
  /\ Succeeded =>
       result.Count = Cardinality({i \in 1..Len(items) : Selects(filterText, items[i])})
  /\ (prev.some /\ pc = "done") => (err = prev.err /\ result.Count = prev.result.Count)

\* two calls, the first with a window past the matches, the second with all
C2_Witness ==
  /\ Succeeded
  /\ prev.some
  /\ filterText = F_NameEqAl
  /\ prev.opts.Offset = 2
  /\ prev.result.Items = <<>>
  /\ prev.result.Count = 2
  /\ opts = DefaultFilterOptions
  /\ Len(result.Items) = 2

\* C3: the empty filter text with the default options returns the collection
\* as it is, Count its length, and no error, for structs, pointers and scalars
\* alike; nothing is preprocessed, parsed or evaluated.
C3_EmptyFilterReturnsAll ==
  (pc = "done" /\ filterText = <<>> /\ opts = DefaultFilterOptions) =>
    /\ ~err
    /\ result.Items = items
    /\ result.Count = Len(items)
    /\ rawFilters = <<>> /\ processedFilter = <<>> /\ anyConditions = <<>>
    /\ rootCondition = NilCondition /\ finalCondition = NilCondition
    /\ visited = <<>>

\* a collection holding a scalar, a pointer and a struct, returned whole
C3_Witness ==
  /\ pc = "done"
  /\ filterText = <<>>
  /\ opts = DefaultFilterOptions
  /\ items = <<Scalar, Bob, Alice>>
  /\ result.Items = <<Scalar, Bob, Alice>>

\* the length of the window on a list of n items
WindowLen(n, limit, offset) ==
  IF offset >= n THEN 0
  ELSE IF limit > 0 /\ limit < n - offset THEN limit
  ELSE n - offset

\* C4: Items is the match list without its first offset elements, cut to limit
\* elements when limit > 0; an offset at or past the end gives no Items, no
\* error, and the Count of all matches.
C4_PaginationWindow ==
  /\ (pc = "done" /\ filterText \notin MalformedFilters) => ~err
  /\ Succeeded =>
       /\ result.Count = Len(Matched)
       /\ Len(result.Items) = WindowLen(Len(Matched), opts.Limit, opts.Offset)
       /\ \A i \in 1..Len(result.Items) : result.Items[i] = Matched[opts.Offset + i]

\* three matches, one dropped by the offset, one cut by the limit
C4_Witness ==
  /\ Succeeded
  /\ filterText = F_AgeGE9
  /\ items = <<Alice, Bob, Alice>>
  /\ opts = [Limit |-> 1, Offset |-> 1]
  /\ result.Items = <<Bob>>
  /\ result.Count = 3

\* C5: the match list is the subsequence of the collection, in input order, of
\* the items on which the final condition is true; the loop evaluates the items
\* one by one, each once.
C5_MatchListIsSubsequence ==
  (pc = "filter" \/ (Succeeded /\ filterText # <<>>)) =>
    /\ visited = [i \in 1..(idx - 1) |-> i]
    /\ filteredItems =
         SelectSeq(SubSeq(items, 1, idx - 1), LAMBDA x : matches(finalCondition, x))
    /\ filteredItems = SelectSeq(SubSeq(items, 1, idx - 1), LAMBDA x : Selects(filterText, x))
    /\ pc = "done" => idx = Len(items) + 1

\* the first item does not match, the next two do, in input order
C5_Witness ==
  /\ Succeeded
  /\ filterText = F_AgeGE9
  /\ items = <<Scalar, Bob, Alice>>
  /\ visited = <<1, 2, 3>>
  /\ filteredItems = <<Bob, Alice>>

\* C6: a call on a malformed filter text returns a non-nil error and the empty
\* Result, and evaluates no item.
C6_MalformedFilterReturnsError ==
  filterText \in MalformedFilters =>
    /\ pc # "panic"
    /\ visited = <<>>
    /\ filteredItems = <<>>
    /\ pc = "done" => (err /\ result = EmptyResult)

\* the call on ANY(Tags) = ANY(') has ended in a run-time panic
C6_PanicReached == pc = "panic" /\ filterText = F_LoneQuote /\ items = <<Alice>>

\* the paths of MissingFields that resolve to a value: Dept.Name on Alice
\* (through her Dept pointer) and on Carol (whose Dept is held by value).  Zip
\* is declared by no record, Name is a string and has no member X, Bob's Dept
\* is nil, and Scalar and NilItem are no structs.
Resolves(item, f) == f = N_DeptName /\ (item = Alice \/ item = Carol)

MissingCases ==
  {[text |-> Cmp(f, op, Str(V_Al)), field |-> f, op |-> op] :
     f \in MissingFields, op \in ScalarOps}

\* C7: a comparison with =, !=, <, <=, >, >=, LIKE or ILIKE on a path that does
\* not resolve on a record is false for that record and nothing crashes; when
\* the path resolves on no record of the collection the call returns no Items,
\* Count 0 and a nil error.
C7_UnresolvedFieldIsFalse ==
  \A c \in MissingCases :
    filterText = c.text =>
      /\ pc # "panic"
      /\ pc = "done" => ~err
      /\ \A j \in 1..Len(filteredItems) : Resolves(filteredItems[j], c.field)
      /\ (pc = "done" /\ \A k \in 1..Len(items) : ~Resolves(items[k], c.field)) =>
           result = EmptyResult

\* Dept.Name != 'Al' leaves out Bob, whose Dept is nil, and keeps Alice
C7_Witness ==
  /\ Succeeded
  /\ filterText = Cmp(N_DeptName, T_NE, Str(V_Al))
  /\ items = <<Bob, Alice>>
  /\ visited = <<1, 2>>
  /\ result.Items = <<Alice>>

\* the array members of the records, as the texts of their elements
HasArray(item, f) ==
  \/ item = Alice /\ f \in {N_Tags, N_Scores, N_DeptTags}
  \/ item = Bob /\ f \in {N_Tags, N_Scores}
  \/ item = Carol /\ f = N_Tags
  \/ item = Dana /\ f = N_Tags

ArrayElems(item, f) ==
  CASE item = Alice /\ f = N_Tags -> {V_js, V_go}
    [] item = Alice /\ f = N_Scores -> {V_90, <<"7">>}
    [] item = Alice /\ f = N_DeptTags -> {V_js}
    [] item = Bob /\ f \in {N_Tags, N_Scores} -> {}
    [] item = Carol /\ f = N_Tags -> {<<>>, V_py}
    [] item = Dana /\ f = N_Tags -> {V_js}

\* the ANY comparisons of AnyFilters with a quoted value or a list of values
AnyCases ==
  {[text |-> AnyCmp(f, op, Str(v)), field |-> f, op |-> op, values |-> {v}] :
     f \in AnyFields, op \in AnyOps, v \in AnyValues}
  \cup
  {[text |-> AnyCmp(f, op, AnyList(vs)), field |-> f, op |-> op,
    values |-> {vs[i] : i \in 1..Len(vs)}] :
     f \in AnyFields, op \in AnyOps, vs \in AnyLists}

\* C8: the four array conditions are false on a record whose array path is
\* missing, unresolvable, a nil pointer or no array; on a present, empty array
\* the two Contains conditions are false and the two Not conditions are true.
C8_ArrayConditionsOnMissingAndEmpty ==
  \A c \in AnyCases :
    (filterText = c.text /\ pc \in {"filter", "done"} /\ ~err) =>
      /\ \A j \in 1..Len(filteredItems) : HasArray(filteredItems[j], c.field)
      /\ \A k \in 1..Len(visited) :
           (HasArray(items[k], c.field) /\ ArrayElems(items[k], c.field) = {}) =>
             (InFiltered(items[k]) <=> c.op = T_NE)

\* ANY(Scores) != ANY('90') is false on Carol, whose Scores is a string, and
\* true on Bob, whose Scores is an empty array
C8_Witness ==
  /\ Succeeded
  /\ filterText = AnyCmp(N_Scores, T_NE, AnyList(<<V_90>>))
  /\ items = <<Carol, Bob>>
  /\ visited = <<1, 2>>
  /\ result.Items = <<Bob>>

\* what the ANY comparison c says of an element set
AnyHolds(c, elems) ==
  IF c.op = T_EQ THEN elems \cap c.values # {} ELSE elems \cap c.values = {}

\* C9: a filter text that is one ANY comparison returns, of the records whose
\* array resolves, those whose elements contain the value (=), do not contain
\* it (!=), intersect the listed values (= ANY) or are disjoint from them
\* (!= ANY).
C9_AnyIsMembership ==
  \A c \in AnyCases :
    (filterText = c.text /\ pc = "done") =>
      /\ \A k \in 1..Len(items) :
           HasArray(items[k], c.field) =>
             ((\E j \in 1..Len(result.Items) : result.Items[j] = items[k])
                <=> AnyHolds(c, ArrayElems(items[k], c.field)))

\* ANY(Tags) = ANY('') returns nothing on Carol, whose Tags hold the empty text
C9_EmptyValueDropped ==
  /\ Succeeded
  /\ filterText = AnyCmp(N_Tags, T_EQ, AnyList(<<<<>>>>))
  /\ items = <<Carol>>
  /\ result.Items = <<>>

\* the texts of the members Age and Name
FieldText(item, f) ==
  CASE item = Alice /\ f = N_Age -> V_9
    [] item = Alice /\ f = N_Name -> V_Al
    [] item = Bob /\ f = N_Age -> V_10
    [] item = Bob /\ f = N_Name -> V_Bo
    [] item = Carol /\ f = N_Age -> V_1x
    [] item = Carol /\ f = N_Name -> V_10

\* the texts that are numbers, with ten times their value
IsNumber(text) == text \in {V_9, V_10, V_10_0}

Tenths(text) == IF text = V_9 THEN 90 ELSE 100

\* the place of a text in the byte-wise order of the texts compared here:
\* "10" < "10.0" < "1x" < "9" < "Al" < "Bo"
LexRank(text) ==
  CASE text = V_10 -> 1
    [] text = V_10_0 -> 2
    [] text = V_1x -> 3
    [] text = V_9 -> 4
    [] text = V_Al -> 5
    [] text = V_Bo -> 6

Ordered(op, a, b) ==
  CASE op = OpLT -> a < b
    [] op = OpLE -> a <= b
    [] op = OpGT -> a > b
    [] op = OpGE -> a >= b

\* numbers are compared as numbers, anything else as texts
OrderHolds(op, fieldText, literal) ==
  IF IsNumber(fieldText) /\ IsNumber(literal)
  THEN Ordered(op, Tenths(fieldText), Tenths(literal))
  ELSE Ordered(op, LexRank(fieldText), LexRank(literal))

\* the literals of CmpLiterals as written, with the text they stand for
OrderLiterals ==
  {[src |-> V_10, text |-> V_10], [src |-> Str(V_10), text |-> V_10],
   [src |-> V_10_0, text |-> V_10_0], [src |-> Str(V_Al), text |-> V_Al]}

OrderCases ==
  {[text |-> Cmp(f, op, lit.src), field |-> f, op |-> op, literal |-> lit.text] :
     f \in CmpFields, op \in OrderOps, lit \in OrderLiterals}

HasMembers(item) == item = Alice \/ item = Bob \/ item = Carol

\* C10: <, <=, >, >= compare the member's text and the literal as numbers when
\* both are numbers, whether the literal is quoted or not, and byte-wise as
\* texts when either is no number.
C10_NumericThenLexicographic ==
  \A c \in OrderCases :
    (filterText = c.text /\ pc \in {"filter", "done"}) =>
      /\ ~err
      /\ \A k \in 1..Len(visited) :
           HasMembers(items[k]) =>
             (InFiltered(items[k])
                <=> OrderHolds(c.op, FieldText(items[k], c.field), c.literal))

\* Age<10 keeps Alice, whose Age 9 is below 10 as a number and above it as a text
C10_Witness ==
  /\ Succeeded
  /\ filterText = Cmp(N_Age, OpLT, V_10)
  /\ items = <<Alice, Bob>>
  /\ visited = <<1, 2>>
  /\ result.Items = <<Alice>>

InResult(x) == \E j \in 1..Len(result.Items) : result.Items[j] = x

\* The reference matcher of SQL LIKE: does pattern[j..] match text[i..] whole,
\* "%" standing for any run of characters and "_" for any one character?
RECURSIVE SqlLike(_, _, _, _)
SqlLike(text, i, pattern, j) ==
  IF j > Len(pattern) THEN i > Len(text)
  ELSE IF pattern[j] = "%" THEN \E k \in i..(Len(text) + 1) : SqlLike(text, k, pattern, j + 1)
  ELSE /\ i <= Len(text)
       /\ (pattern[j] = "_" \/ pattern[j] = text[i])
       /\ SqlLike(text, i + 1, pattern, j + 1)

\* what a call on Name LIKE 'p' has to return: the records with a Name the
\* reference matcher accepts, and nothing else
LikeAsReference(p) ==
  (filterText = Cmp(N_Name, T_LIKE, Str(p)) /\ pc = "done") =>
    /\ ~err
    /\ \A k \in 1..Len(items) :
         InResult(items[k])
           <=> (HasMembers(items[k]) /\ SqlLike(FieldText(items[k], N_Name), 1, p, 1))

\* C11: in a LIKE pattern every "%" matches any run of zero or more characters,
\* wherever it stands and however many there are: Name LIKE 'p' returns the
\* records the reference matcher accepts, for the patterns with several "%" as
\* for those with one.
C11_PercentMatchesAnyRun == \A p \in LikePercentPatterns : LikeAsReference(p)

\* Name LIKE '%A%l%' does not return Alice, whose Name is Al
C11_SeveralPercentMissed ==
  /\ Succeeded
  /\ filterText = Cmp(N_Name, T_LIKE, Str(<<"%", "A", "%", "l", "%">>))
  /\ items = <<Alice>>
  /\ result.Items = <<>>

\* C12: in a LIKE pattern every "_" matches exactly one character, in a pattern
\* with no "%" and in a pattern that starts or ends with "%".
C12_UnderscoreMatchesOne == \A p \in LikeUnderscorePatterns : LikeAsReference(p)

\* Name LIKE 'A_' does not return Alice, whose Name is Al
C12_UnderscoreTakenLiterally ==
  /\ Succeeded
  /\ filterText = Cmp(N_Name, T_LIKE, Str(<<"A", "_">>))
  /\ items = <<Alice>>
  /\ result.Items = <<>>

\* a text with its capital letters replaced by small ones (the capitals of the
\* names and patterns used here are A, B and L)
Folded(text) ==
  [i \in 1..Len(text) |->
     CASE text[i] = "A" -> "a"
       [] text[i] = "B" -> "b"
       [] text[i] = "L" -> "l"
       [] OTHER -> text[i]]

HasWildcard(p) == \E i \in 1..Len(p) : p[i] \in {"%", "_"}

\* C13: Name ILIKE 'p' returns the records on which the case-sensitive match
\* of the folded Name against the folded pattern is true; Name LIKE 'p' with a
\* pattern without wildcards returns the records whose Name is p letter for
\* letter, so a Name that differs from p in letter case only is returned by
\* ILIKE and not by LIKE.
C13_IlikeIsLikeOnLowerCase ==
  \A p \in LikePatterns :
    /\ (filterText = Cmp(N_Name, T_ILIKE, Str(p)) /\ pc = "done") =>
         /\ ~err
         /\ \A k \in 1..Len(items) :
              InResult(items[k])
                <=> /\ HasMembers(items[k])
                    /\ likeMatch(Folded(FieldText(items[k], N_Name)), Folded(p), FALSE)
    /\ (filterText = Cmp(N_Name, T_LIKE, Str(p)) /\ pc = "done" /\ ~HasWildcard(p)) =>
         /\ ~err
         /\ \A k \in 1..Len(items) :
              InResult(items[k]) <=> (HasMembers(items[k]) /\ FieldText(items[k], N_Name) = p)

\* Name ILIKE 'AL' returns Alice, whose Name is Al
C13_Witness ==
  /\ Succeeded
  /\ filterText = Cmp(N_Name, T_ILIKE, Str(<<"A", "L">>))
  /\ items = <<Alice, Bob>>
  /\ visited = <<1, 2>>
  /\ result.Items = <<Alice>>

\* The records the texts of BoolFilters select.  Age is 9 on Alice, 10 on Bob
\* and the text 1x on Carol; Name is Al, Bo and 10.
BoolCases ==
  {[text |-> F_ParenAge9, sel |-> {Alice}],
   [text |-> F_ParenOrAnd, sel |-> {Bob}],
   [text |-> F_AndParenOr, sel |-> {}],
   [text |-> F_OrAnd, sel |-> {Alice, Bob}],
   [text |-> F_And, sel |-> {}],
   [text |-> F_Or, sel |-> {Alice, Carol}]}

\* the call on c.text returned, without error, the records of c.sel
ReturnsSelection(c) ==
  (filterText = c.text /\ pc = "done") =>
    /\ ~err
    /\ \A k \in 1..Len(items) : InResult(items[k]) <=> items[k] \in c.sel

\* C14: an expression of comparisons, AND, OR and parenthesised groups selects
\* the records on which it is true, AND and OR being the logical operations
\* and a group ( e ) having the truth value of e.
C14_LoweringKeepsBooleanStructure == \A c \in BoolCases : ReturnsSelection(c)

\* (Age = 9) returns Bob, whose Age is 10
C14_GroupMatchesEverything ==
  /\ Succeeded
  /\ filterText = F_ParenAge9
  /\ items = <<Bob>>
  /\ finalCondition = alwaysTrueCondition
  /\ result.Items = <<Bob>>

\* The records the texts of ConjFilters select.  Tags is {js, go} on Alice,
\* empty on Bob and {"", py} on Carol; Scores is {90, 7} on Alice, empty on Bob
\* and no array on Carol; Age 1x is above 10 as a text.
ConjCases ==
  {[text |-> F_AnyAndName, sel |-> {}],
   [text |-> F_NameAndAny, sel |-> {Alice}],
   [text |-> F_NotAnyAndAge, sel |-> {Bob, Carol}],
   [text |-> F_AgeAnyName, sel |-> {Alice}],
   [text |-> F_AnyListAndName, sel |-> {Carol}],
   [text |-> F_AnyAndAny, sel |-> {Alice}],
   [text |-> F_NotAnyAndNotAny, sel |-> {Bob}]}

\* C15: a conjunction, joined by " AND ", of ANY comparisons (with values
\* that are not empty) and plain comparisons, in any order, returns the
\* records that satisfy every conjunct.
C15_ConjunctionWithAny == \A c \in ConjCases : ReturnsSelection(c)

\* ANY(Tags) != 'js' AND Age >= 10 drops Alice, who has the tag, and keeps Bob
C15_Witness ==
  /\ Succeeded
  /\ filterText = F_NotAnyAndAge
  /\ items = <<Alice, Bob>>
  /\ Len(anyConditions) = 1
  /\ rootCondition # NilCondition
  /\ result.Items = <<Bob>>

\* the records the texts of DisjFilters select
DisjCases ==
  {[text |-> F_AnyOrName, sel |-> {Alice, Bob}],
   [text |-> F_NameOrAny, sel |-> {Bob, Carol}],
   [text |-> F_AnyOrAny, sel |-> {Alice}]}

\* C16: X OR Y, where X or Y or both are ANY comparisons, returns the records
\* that satisfy X or satisfy Y, and no record that satisfies neither.
C16_AnyUnderOr == \A c \in DisjCases : ReturnsSelection(c)

\* ANY(Tags) = 'js' OR Name = 'Bo' returns Carol, who has neither
C16_NeitherDisjunctReturned ==
  /\ Succeeded
  /\ filterText = F_AnyOrName
  /\ items = <<Carol>>
  /\ result.Items = <<Carol>>

\* texts with AND or OR in capitals, the same in small letters, and the
\* records the text in capitals selects
KeywordCases ==
  {[upper |-> F_AnyAndName, lower |-> F_AnyAndName_lc, sel |-> {}],
   [upper |-> F_NameAndAny, lower |-> F_NameAndAny_lc, sel |-> {Alice}],
   [upper |-> F_NotAnyAndAge, lower |-> F_NotAnyAndAge_lc, sel |-> {Bob, Carol}],
   [upper |-> F_And, lower |-> F_And_lc, sel |-> {}],
   [upper |-> F_Or, lower |-> F_Or_lc, sel |-> {Alice, Carol}],
   [upper |-> F_OrAnd, lower |-> F_OrAnd_lc, sel |-> {Alice, Bob}]}

\* C17: writing and for AND, or or for OR, changes no result: the text in
\* small letters returns what the text in capitals returns, also next to an ANY
\* comparison.
C17_KeywordCaseIsIrrelevant ==
  \A c \in KeywordCases :
    /\ ReturnsSelection([text |-> c.upper, sel |-> c.sel])
    /\ ReturnsSelection([text |-> c.lower, sel |-> c.sel])

\* ANY(Tags) = 'js' and Name = 'Bo' returns Alice, who is not named Bo; with
\* AND in capitals nothing is returned
C17_PlainConjunctIgnored ==
  /\ Succeeded
  /\ filterText = F_AnyAndName_lc
  /\ items = <<Alice>>
  /\ result.Items = <<Alice>>

AloneResult(text) ==
  LET selected == SelectSeq(items, LAMBDA x : Selects(text, x))
  IN  [Items |-> selected, Count |-> Len(selected)]

\* C19: calls that run concurrently on one collection each return, in every
\* interleaving of their steps, the Result the call returns alone; the match
\* list of a call holds at any moment the matches among the items that call
\* has evaluated, whatever the other calls have done meanwhile.
C19_ConcurrentCallsAsAlone ==
  \A p \in DOMAIN calls :
    /\ calls[p].pc # "panic"
    /\ calls[p].filteredItems =
         SelectSeq(SubSeq(items, 1, calls[p].idx - 1), LAMBDA x : Selects(calls[p].text, x))
    /\ calls[p].pc = "done" =>
         IF calls[p].text \in MalformedFilters
         THEN calls[p].err /\ calls[p].result = EmptyResult
         ELSE ~calls[p].err /\ calls[p].result = AloneResult(calls[p].text)

\* ANY(Tags) = 'js' has returned Alice after evaluating items while Age>=9, on
\* the same collection, was in its loop, where it has evaluated one item so far
C19_Witness ==
  /\ items = <<Alice, Bob>>
  /\ calls[1].text = F_AnyTagsJs
  /\ calls[1].pc = "done"
  /\ calls[1].overlapped
  /\ calls[1].result = [Items |-> <<Alice>>, Count |-> 1]
  /\ calls[2].text = F_AgeGE9
  /\ calls[2].pc = "filter"
  /\ calls[2].idx = 2
  /\ calls[2].filteredItems = <<Alice>>

\* C20: a filter text whose expression holds a node that is no comparison, AND
\* or OR (a negation, a bare name, a bare boolean) is rejected: the call
\* returns an error and the empty Result, and evaluates no item.
C20_OtherExpressionsRejected ==
  filterText \in OtherExprFilters =>
    /\ visited = <<>>
    /\ pc = "done" => (err /\ result = EmptyResult)

\* NOT Name = 'Al' returns, without an error, Alice as well as Bob
C20_NegationMatchesEverything ==
  /\ Succeeded
  /\ filterText = F_NotNameAl
  /\ items = <<Alice, Bob>>
  /\ finalCondition = alwaysTrueCondition
  /\ result = [Items |-> <<Alice, Bob>>, Count |-> 2]

\* what ParseFilter makes of the comparisons of the texts above
E_a == GoquComparison(<<"a">>, "EQ", <<"1">>)

E_b == GoquComparison(<<"b">>, "EQ", <<"2">>)

E_c == GoquComparison(<<"c">>, "EQ", <<"3">>)

E_d == GoquComparison(<<"d">>, "EQ", <<"4">>)

\* the comparisons a filter text of ParseFilters holds, in the order in which
\* the text holds them
SourceComparisons(text) ==
  (IF Contains(text, Q_a) THEN <<E_a>> ELSE <<>>)
    \o (IF Contains(text, Q_b) THEN <<E_b>> ELSE <<>>)
    \o (IF Contains(text, Q_c) THEN <<E_c>> ELSE <<>>)
    \o (IF Contains(text, Q_d) THEN <<E_d>> ELSE <<>>)

\* the comparisons of a list of expressions, groups opened, left to right
RECURSIVE GoquLeaves(_)
GoquLeaves(list) ==
  IF list = <<>> THEN <<>>
  ELSE (IF list[1].q = "C" THEN <<list[1]>> ELSE GoquLeaves(list[1].expressions))
         \o GoquLeaves(Tail(list))

\* the nodes of a syntax tree
RECURSIVE TreeNodes(_)
TreeNodes(e) ==
  {e} \cup (CASE e.node \in {"AndExpr", "OrExpr", "ComparisonExpr"} ->
                   TreeNodes(e.left) \cup TreeNodes(e.right)
              [] e.node \in {"ParenExpr", "NotExpr"} -> TreeNodes(e.expr)
              [] OTHER -> {})

\* the comparisons under a node of a syntax tree, left to right
RECURSIVE TreeComparisons(_)
TreeComparisons(e) ==
  CASE e.node = "ComparisonExpr" -> <<GoquComparison(e.left.text, e.operator, e.right.text)>>
    [] e.node \in {"AndExpr", "OrExpr"} -> TreeComparisons(e.left) \o TreeComparisons(e.right)
    [] e.node \in {"ParenExpr", "NotExpr"} -> TreeComparisons(e.expr)
    [] OTHER -> <<>>

\* the texts of ParseFilters whose comparisons are all of the form x='n'
PlainParseFilters == ParseFilters \ {<<>>, F_Quack, F_Unclosed, F_Qa_Like, F_Qa_NE}

\* C21: ParseFilter keeps every comparison exactly once, in source order, and
\* keeps nesting: a AND (b AND c) gives [a, And(b, c)], a AND (b OR c) gives
\* [a, Or(b, c)]; VisitPre on an AND / OR node adds exactly one And / Or
\* expression, built from the operands of the node, and answers that the walk
\* is not to descend into the node.
C21_TranslationKeepsComparisons ==
  (pc = "done" /\ filterText \in PlainParseFilters) =>
    /\ ~err
    /\ GoquLeaves(expressions) = SourceComparisons(filterText)
    /\ filterText = F_AndParenAnd => expressions = <<E_a, GoquAnd(<<E_b, E_c>>)>>
    /\ filterText = F_AndParenOrQ => expressions = <<E_a, GoquOr(<<E_b, E_c>>)>>
    /\ \A n \in TreeNodes(whereExpr) :
         n.node \in {"AndExpr", "OrExpr"} =>
           \E r \in {VisitPre(<<>>, n)} :
             /\ ~r.recurse
             /\ Len(r.expressions) = 1
             /\ r.expressions[1].q = (IF n.node = "AndExpr" THEN "And" ELSE "Or")
             /\ Len(r.expressions[1].expressions) = 2
             /\ GoquLeaves(r.expressions) = TreeComparisons(n)

\* a AND (b OR c) has been translated to [a, Or(b, c)]
C21_Witness ==
  /\ pc = "done"
  /\ filterText = F_AndParenOrQ
  /\ expressions = <<E_a, GoquOr(<<E_b, E_c>>)>>

\* C22: a comparison whose left operand is the word true or false is lowered
\* to the condition that is always true, whatever the operator and the right
\* operand, so the call returns every record and looks up no field named
\* true; and a visitor, or a filter loop, whose condition is nil accepts
\* every record.
C22_PlaceholderComparisonAlwaysTrue ==
  /\ filterText \in PlaceholderFilters =>
       /\ pc \in {"combine", "filter", "done"} => rootCondition = alwaysTrueCondition
       /\ pc \in {"filter", "done"} => finalCondition = alwaysTrueCondition
       /\ pc = "done" => (~err /\ result = [Items |-> items, Count |-> Len(items)])
  /\ rootCondition = NilCondition =>
       \A i \in 1..Len(items) :
         gfvEvaluate(rootCondition, items[i]) /\ matches(rootCondition, items[i])

\* false >= 10 has returned Alice and Bob, who have no field named false
C22_Witness ==
  /\ Succeeded
  /\ filterText = Cmp(FalseText, OpGE, V_10)
  /\ items = <<Alice, Bob>>
  /\ rootCondition = alwaysTrueCondition
  /\ result.Items = <<Alice, Bob>>

\* the records a filter text selects when every field is named in the letter
\* case of its declaration (sel), named in this letter case or another; clash:
\* the records that declare another member with the lower-cased name of the
\* member named
LetterCaseCases ==
  {[text |-> F_Name_Al,        sel |-> {Alice}, clash |-> {}],
   [text |-> F_name_Al,        sel |-> {Alice}, clash |-> {}],
   [text |-> F_NAME_Al,        sel |-> {Alice}, clash |-> {}],
   [text |-> F_DeptName_Eng,   sel |-> {Alice}, clash |-> {}],
   [text |-> F_deptname_Eng,   sel |-> {Alice}, clash |-> {}],
   [text |-> F_DEPTname_Eng,   sel |-> {Alice}, clash |-> {}],
   [text |-> F_AnyTags_js,     sel |-> {Alice, Dana}, clash |-> {}],
   [text |-> F_Anytags_js,     sel |-> {Alice, Dana}, clash |-> {Dana}],
   [text |-> F_AnytAGS_js,     sel |-> {Alice, Dana}, clash |-> {Dana}],
   [text |-> F_AnyDeptTags_js, sel |-> {Alice}, clash |-> {}],
   [text |-> F_Anydepttags_js, sel |-> {Alice}, clash |-> {}],
   [text |-> F_AnyTags_ne_js,  sel |-> {Bob, Carol}, clash |-> {}],
   [text |-> F_Anytags_ne_js,  sel |-> {Bob, Carol}, clash |-> {Dana}]}

\* C23 as claimed: a filter that names a field in another letter case returns
\* the records the filter with the declared letter case returns, in
\* comparisons and in ANY.
C23_LetterCaseIsIrrelevant ==
  \A c \in LetterCaseCases :
    (filterText = c.text /\ pc = "done" /\ items \in CaseCollections) =>
      /\ ~err
      /\ \A k \in 1..Len(items) : InResult(items[k]) <=> items[k] \in c.sel

\* C23 amended: a path segment is looked up by its exact name first and, when
\* no member has that name, as the first declared member with the same
\* lower-cased name (on Dana, Tags is the member Tags, tags and tAGS are the
\* member TAGS); a filter that names a field in another letter case returns
\* the records the filter with the declared letter case returns, among the
\* records that declare no other member with the same lower-cased name.
C23_LetterCaseUpToFirstDeclared ==
  /\ \A c \in LetterCaseCases :
       (filterText = c.text /\ pc = "done" /\ items \in CaseCollections) =>
         /\ ~err
         /\ \A k \in 1..Len(items) :
              items[k] \notin c.clash => (InResult(items[k]) <=> items[k] \in c.sel)
  /\ (pc = "done" /\ \E k \in 1..Len(items) : items[k] = Dana) =>
       /\ filterText \in {F_AnyTags_js, F_Anytags_py, F_AnyTAGS_py, F_Anytags_ne_js}
            => InResult(Dana)
       /\ filterText \in {F_Anytags_js, F_AnytAGS_js, F_AnyTags_ne_js} => ~InResult(Dana)

\* dept.name = 'Eng' has returned Alice, and nobody else, from Alice and Carol
C23_Witness ==
  /\ Succeeded
  /\ filterText = F_deptname_Eng
  /\ items = <<Alice, Carol>>
  /\ result.Items = <<Alice>>

\* ANY(tags) = 'js' has not returned Dana, whose Tags hold js
C23_EarlierMemberTaken ==
  /\ Succeeded
  /\ filterText = F_Anytags_js
  /\ items = <<Dana>>
  /\ result.Items = <<>>

\* C24: in a LIKE pattern with a "%" inside and none at either end, every
\* character other than "%" and "_" matches itself and nothing else, the
\* operators of regular expressions and the backslash included: Name LIKE 'p'
\* returns the records the reference matcher accepts, and the expression
\* derived from p is one the regexp package compiles.
C24_LiteralCharactersMatchThemselves ==
  \A p \in LikeLiteralPatterns :
    /\ LikeAsReference(p)
    /\ (filterText = Cmp(N_Name, T_LIKE, Str(p)) /\ pc = "done")
         => ~MatchAnchored(likeToRegex(p), <<>>).err

\* Name LIKE '1\%0' has returned Carol, whose Name is 10 and holds no backslash
C24_BackslashActsAsOperator ==
  /\ Succeeded
  /\ filterText = Cmp(N_Name, T_LIKE, Str(P_1Back0))
  /\ items = <<Carol>>
  /\ result.Items = <<Carol>>

\* C25: the decoding step of ApplyFilter changes nothing and never fails: the
\* text handed to the parser is the preprocessed text, character by
\* character, also where that text holds a "%", a "+" or what reads as a
\* percent-escape; without ANY the text handed to the parser is the filter
\* text itself.
C25_DecodeIsNoOp ==
  (filterText # <<>> /\ pc \in {"parse", "combine", "filter", "done"}) =>
    /\ rawFilters = processedFilter
    /\ ~Contains(filterText, AnyOpenText) => rawFilters = filterText

\* Name LIKE '%41' has reached the parser as it was written, and has returned
\* no record from Alice and Carol: no Name ends with 41
C25_Witness ==
  /\ Succeeded
  /\ filterText = F_LikePct41
  /\ rawFilters = F_LikePct41
  /\ items = <<Alice, Carol>>
  /\ result.Items = <<>>

\* C26: no step of a call, of a call that fails and of a call repeated with
\* other options included, changes the caller's collection: its length, its
\* elements and their order, and the records themselves, stay as they were.
C26_InputNeverModified == [][items' = items]_vars

\* Name = 'Al' on Bob, Alice has returned Alice alone, from the second place
\* of a collection that still holds Bob first
C26_Witness ==
  /\ Succeeded
  /\ filterText = F_NameEqAl
  /\ items = <<Bob, Alice>>
  /\ visited = <<1, 2>>
  /\ result.Items = <<Alice>>

\* the conditions a condition tree is made of
RECURSIVE LeafConditions(_)
LeafConditions(c) ==
  IF c.kind \in {"And", "Or"} THEN LeafConditions(c.left) \cup LeafConditions(c.right)
  ELSE {c}

ScalarPairKinds == {"Equal", "NotEqual"}

ArrayPairKinds ==
  {"AnyArrayContains", "AnyArrayNotContains", "AnyArrayContainsAny", "AnyArrayNotContainsAny"}

\* the positive and the negative condition on the field and value(s) of c
PositiveOf(c) ==
  CASE c.kind \in ScalarPairKinds -> EqualCondition(c.field, c.value)
    [] c.kind \in {"AnyArrayContains", "AnyArrayNotContains"} ->
         AnyArrayContainsCondition(c.field, c.value)
    [] OTHER -> AnyArrayContainsAnyCondition(c.field, c.values)

NegativeOf(c) ==
  CASE c.kind \in ScalarPairKinds -> NotEqualCondition(c.field, c.value)
    [] c.kind \in {"AnyArrayContains", "AnyArrayNotContains"} ->
         AnyArrayNotContainsCondition(c.field, c.value)
    [] OTHER -> AnyArrayNotContainsAnyCondition(c.field, c.values)

\* the field of c resolves on item: to a value for the scalar pair, to an
\* array for the array pairs
FieldResolves(c, item) ==
  IF c.kind \in ScalarPairKinds THEN getFieldValue(item, c.field).found
  ELSE getArrayFieldValues(item, c.field).found

\* the paired conditions of the filter of the call
PairedLeaves ==
  {c \in LeafConditions(finalCondition) : c.kind \in ScalarPairKinds \cup ArrayPairKinds}

\* C27: for every Equal, NotEqual or array condition the filter is made of and
\* every record the loop has evaluated, the negative condition on the same
\* field and value(s) is true exactly when the positive one is false if the
\* field resolves on the record (an empty array and an empty list of values
\* included), and both are false if it does not.
C27_NegativeIsComplementWhereResolved ==
  (pc \in {"filter", "done"} /\ ~err /\ finalCondition.kind # "nil") =>
    \A c \in PairedLeaves : \A k \in 1..Len(visited) :
      \E item \in {items[k]} :
        /\ (c.kind \in ArrayPairKinds /\ c.field \in AnyFields) =>
             (FieldResolves(c, item) <=> HasArray(item, c.field))
        /\ IF FieldResolves(c, item)
           THEN evaluate(NegativeOf(c), item) <=> ~evaluate(PositiveOf(c), item)
           ELSE ~evaluate(PositiveOf(c), item) /\ ~evaluate(NegativeOf(c), item)

\* ANY(Tags) != ANY('') is built with no value: on Bob, whose Tags is an empty
\* array, the negative condition is true and the positive one false, and on
\* the scalar, which has no Tags, both are false
C27_Witness ==
  /\ Succeeded
  /\ filterText = AnyCmp(N_Tags, T_NE, AnyList(<<<<>>>>))
  /\ items = <<Bob, Scalar>>
  /\ visited = <<1, 2>>
  /\ result.Items = <<Bob>>
  /\ \E c \in PairedLeaves :
       /\ c.kind = "AnyArrayNotContainsAny" /\ c.values = <<>>
       /\ FieldResolves(c, Bob) /\ ~evaluate(PositiveOf(c), Bob)
       /\ ~FieldResolves(c, Scalar)
       /\ ~evaluate(PositiveOf(c), Scalar) /\ ~evaluate(NegativeOf(c), Scalar)

\* the unpaginated options: limit 0, offset 0
Unpaginated == [Limit |-> 0, Offset |-> 0]

\* the elements k*l + 1 .. (k+1)*l of list, as far as the list goes
Block(list, l, k) ==
  [i \in 1..(IF (k + 1) * l <= Len(list) THEN l
             ELSE IF k * l < Len(list) THEN Len(list) - k * l ELSE 0) |-> list[k * l + i]]

\* the pages of limit l from page k on, one after the other, each as
\* applyPagination cuts it, up to the first offset at or past the end
RECURSIVE PagesFrom(_, _, _)
PagesFrom(list, l, k) ==
  IF k * l >= Len(list) THEN <<>>
  ELSE applyPagination(list, [Limit |-> l, Offset |-> k * l]) \o PagesFrom(list, l, k + 1)

\* C28: with a limit L > 0, a call at an offset k*L returns the k-th block of
\* L items of what the unpaginated call on the same filter and collection has
\* returned (the last block shorter, the blocks from offset >= Count on empty)
\* and the same Count; the pages at offsets 0, L, 2L, ... one after the other
\* are the unpaginated Items.
C28_PagesPartitionTheMatches ==
  (Succeeded /\ prev.some /\ ~prev.err /\ prev.opts = Unpaginated
     /\ opts.Limit > 0 /\ opts.Offset % opts.Limit = 0) =>
    /\ result.Count = prev.result.Count
    /\ result.Count = Len(prev.result.Items)
    /\ result.Items = Block(prev.result.Items, opts.Limit, opts.Offset \div opts.Limit)
    /\ opts.Offset >= result.Count => result.Items = <<>>
    /\ PagesFrom(prev.result.Items, opts.Limit, 0) = prev.result.Items
    /\ PagesFrom(prev.result.Items, opts.Limit, opts.Offset \div opts.Limit) =
         result.Items \o PagesFrom(prev.result.Items, opts.Limit, (opts.Offset \div opts.Limit) + 1)

\* Age >= 9 returned Alice, Bob, Alice unpaginated; the page of limit 2 at
\* offset 2 is the last Alice alone, with Count 3
C28_Witness ==
  /\ Succeeded
  /\ prev.some /\ ~prev.err
  /\ prev.opts = Unpaginated
  /\ prev.result = [Items |-> <<Alice, Bob, Alice>>, Count |-> 3]
  /\ filterText = F_AgeGE9
  /\ opts = [Limit |-> 2, Offset |-> 2]
  /\ result = [Items |-> <<Alice>>, Count |-> 3]

\* the page at an offset equal to the Count is empty
C28_PagePastTheEnd ==
  /\ Succeeded
  /\ prev.some /\ ~prev.err
  /\ prev.opts = Unpaginated
  /\ prev.result.Count = 2
  /\ opts = [Limit |-> 1, Offset |-> 2]
  /\ result = [Items |-> <<>>, Count |-> 2]

====
